---- MODULE Spec2Model ----
(***************************************************************************)
(* Model of libosmium's ordered future queue (add_to_queue,                *)
(* queue_wrapper) and of ReadThreadManager, the background task that       *)
(* drives a Decompressor and forwards chunks, failures and the end-of-file *)
(* sentinel into the queue.                                                *)
(*                                                                         *)
(* Two specifications share the state:                                     *)
(*   SpecChan  the queue with arbitrary producers (add_to_queue calls and  *)
(*             slots reserved first and fulfilled later, in any order)     *)
(*             and one queue_wrapper consumer;                             *)
(*   Spec      ReadThreadManager -> queue -> queue_wrapper, with the main  *)
(*             task calling stop(), close() and the destructor.            *)
(***************************************************************************)
EXTENDS Naturals, Integers, Sequences, FiniteSets, TLC

\* ------------------------------------------------------------------ bounds
\* number of slots the producers of SpecChan append
MaxSlots == 4
\* number of pop() calls recorded once the wrapper is DONE
MaxPops == 5
\* number of data chunks the decompressor holds within the model's horizon
MaxChunks == 2

\* ------------------------------------------------------------ data values
\* non-empty chunks
Chunks == {"A", "B", "C"}
\* chunks a decompressor script is drawn from
ReadChunks == {"A", "B"}
\* std::string{} : the end-of-file marker
EmptyString == ""
\* failures
ReadError == "read failed"
CloseError == "read close failed"
OtherError == "parse failed"

\* content of the shared state of a promise/future pair
Pending == [k |-> "pending", v |-> ""]
Val(s) == [k |-> "val", v |-> s]
Exc(e) == [k |-> "exc", v |-> e]

VARIABLES
    m_queue,          \* osmium::thread::Queue<std::future<T>>: slot ids, oldest first
    cell,             \* shared state of the i-th promise created (i = append order)
    qw_m_done,        \* queue_wrapper::m_done
    data_future,      \* pop(): the future taken off the queue, 0 when pop() is not blocked
    popped,           \* outcomes of the completed pop() calls, in call order
    promise,          \* add_to_queue: the local promise after push(), 0 outside
    promise_data,     \* add_to_queue: what set_value/set_exception will store
    rt_pc,            \* position of run_in_thread
    data,             \* run_in_thread: the chunk read() returned
    exception,        \* run_in_thread: std::current_exception() in the catch block
    rtm_m_done,       \* ReadThreadManager::m_done (atomic stop flag)
    m_thread,         \* m_thread.joinable()
    main_pc,          \* position of the main task inside close() / the destructor
    alive,            \* FALSE once the ReadThreadManager has been destroyed
    reads,            \* decompressor: the chunks read() returns, in order
    term,             \* decompressor: what read() does after them
    closeFails,       \* decompressor: whether close() raises
    d_pos,            \* decompressor: completed read() calls
    d_closed,         \* decompressor: close() calls
    reads_after_stop, \* read() calls that returned after stop()
    pushes_after_stop,\* data chunks pushed after stop()
    pops_at_failure,  \* pop() calls begun when read() failed, -1 before
    qw_pc,            \* consumer task: "idle", inside drain(), inside ~queue_wrapper(), "gone"
    escaped,          \* a failure has left drain() or ~queue_wrapper()
    drain_pops,       \* pop() calls completed inside drain()
    kind,             \* the codec object under test: "decomp", "comp", "buf" or "none"
    file,             \* bytes of the file (or memory buffer) a decompressor reads
    plain,            \* the plaintexts the streams in file were compressed from
    fd,               \* the descriptor the codec was constructed with
    m_file,           \* file_wrapper::m_file is non-null
    fd_open,          \* the descriptor is open
    n_fclose,         \* fclose() calls
    f_pos,            \* stdio: bytes of file consumed by fread
    f_eof,            \* stdio: end-of-file indicator of the FILE
    m_bzfile,         \* m_bzfile is non-null
    bz_live,          \* library handles opened and not yet released
    bz_buf,           \* library: input bytes buffered and not yet decoded
    bz_st,            \* library: decoder state "magic", "data", "end"
    m_stream_end,     \* Bzip2Decompressor::m_stream_end
    m_buffer,         \* Bzip2BufferDecompressor::m_buffer is non-null
    m_file_size,      \* Bzip2Compressor::m_file_size
    result,           \* outcome of the last call on the codec object
    out,              \* bytes returned by read() before its first empty result
    ended,            \* a read() has returned empty
    n_after,          \* read() calls after the first empty result
    late,             \* a read() after the first empty result returned bytes
    aborted,          \* an assert has failed
    destroyed,        \* the codec object has been destroyed
    closes,           \* close() calls made by the owner
    env,              \* what the environment does: build flags, failures, sizes
    lib_bad,          \* status other than ok or stream end that the library
                      \* reported to the last read() or write(), "" if none
    called,           \* the last read() or write() called the library
    advice,           \* eviction advisories the last call issued
    includers,        \* translation units of the program that include the codec
    registered_bzip2_compression,
                      \* the constant of each translation unit, "none" before
                      \* its dynamic initialization
    m_callbacks,      \* CompressionFactory: the table, kind -> constructors
    n_registered,     \* register_compression calls made for the bzip2 kind
    started,          \* static initialization is over, main() runs
    made              \* what the lookups since then constructed, in order

chanVars == <<m_queue, cell>>
consVars == <<qw_m_done, data_future, popped>>
addVars  == <<promise, promise_data>>
rtVars   == <<rt_pc, data, exception, d_pos, d_closed, reads_after_stop, pushes_after_stop, pops_at_failure>>
mgrVars  == <<rtm_m_done, m_thread, main_pc, alive>>
drainVars == <<qw_pc, escaped, drain_pops>>
\* the inputs, and the state that the queue and manager actions leave alone
codecVars == <<kind, file, plain, fd, m_file, fd_open, n_fclose, f_pos, f_eof,
               m_bzfile, bz_live, bz_buf, bz_st, m_stream_end, m_buffer,
               m_file_size, result, out, ended, n_after, late, aborted,
               destroyed, closes, env, lib_bad, called, advice>>
regVars  == <<includers, registered_bzip2_compression, m_callbacks,
               n_registered, started, made>>
inVars   == <<reads, term, closeFails, drainVars, codecVars, regVars>>
vars == <<m_queue, cell, qw_m_done, data_future, popped, promise, promise_data,
          rt_pc, data, exception, rtm_m_done, m_thread, main_pc, alive, reads, term,
          closeFails, d_pos, d_closed, reads_after_stop, pushes_after_stop,
          pops_at_failure, qw_pc, escaped, drain_pops,
          kind, file, plain, fd, m_file, fd_open, n_fclose, f_pos, f_eof,
          m_bzfile, bz_live, bz_buf, bz_st, m_stream_end, m_buffer,
          m_file_size, result, out, ended, n_after, late, aborted,
          destroyed, closes, env, lib_bad, called, advice,
          includers, registered_bzip2_compression, m_callbacks, n_registered,
          started, made>>

\* what a slot can be fulfilled with
Contents == {Val(s) : s \in Chunks \cup {EmptyString}} \cup {Exc(OtherError)}

IsPrefix(s, t) == Len(s) <= Len(t) /\ SubSeq(t, 1, Len(s)) = s

\* ------------------------------------------------- osmium::thread::Queue
\* Queue::push: append at the back; unbounded, never blocks
push(q, f) == Append(q, f)

\* Queue::wait_and_pop: blocks while the queue is empty, then takes the front
wait_and_pop_ready(q) == q /= <<>>
wait_and_pop_front(q) == Head(q)
wait_and_pop_rest(q) == Tail(q)

\* ------------------------------------------------------------ add_to_queue
\* a push that appends a second slot which no one fulfils
AddToQueuePushTwo(content) ==
    /\ promise = 0
    /\ cell' = cell \o <<Pending, Pending>>
    /\ m_queue' = push(push(m_queue, Len(cell) + 1), Len(cell) + 2)
    /\ promise' = Len(cell) + 1
    /\ promise_data' = content

\* std::promise<T> promise; queue.push(promise.get_future());
AddToQueuePush(content) ==
    /\ promise = 0
    /\ cell' = Append(cell, Pending)
    /\ m_queue' = push(m_queue, Len(cell) + 1)
    /\ promise' = Len(cell) + 1
    /\ promise_data' = content

\* set_value storing a moved-from (empty) string instead of the data
AddToQueueSetMovedFrom ==
    /\ promise /= 0
    /\ cell' = [cell EXCEPT ![promise] =
                  IF promise_data.k = "val" THEN Val(EmptyString) ELSE promise_data]
    /\ promise' = 0
    /\ promise_data' = Pending
    /\ UNCHANGED m_queue

\* promise.set_value(data) / promise.set_exception(exception)
AddToQueueSet ==
    /\ promise /= 0
    /\ cell' = [cell EXCEPT ![promise] = promise_data]
    /\ promise' = 0
    /\ promise_data' = Pending
    /\ UNCHANGED m_queue

\* ----------------------------------------------------------- queue_wrapper
\* the test of check_is_done inverted
check_is_done_inverted(d) == d /= EmptyString

\* check_is_done<std::string>: m_done = data.empty()
check_is_done(d) == d = EmptyString

\* pop() without its test of m_done
pop_never_returns_early(done) == FALSE

\* pop(): if (m_done) return T{};
pop_returns_early(done) == done

\* pop() on a DONE wrapper
PopDone ==
    /\ data_future = 0
    /\ pop_returns_early(qw_m_done)
    /\ Len(popped) < MaxPops
    /\ popped' = Append(popped, Val(EmptyString))
    /\ UNCHANGED <<qw_m_done, data_future>>
    /\ UNCHANGED <<chanVars, addVars, rtVars, mgrVars, inVars>>

\* pop() taking the oldest slot that is already fulfilled, if there is one
PopWaitOvertaking ==
    /\ data_future = 0
    /\ ~pop_returns_early(qw_m_done)
    /\ wait_and_pop_ready(m_queue)
    /\ \E n \in 1..Len(m_queue) :
         /\ \/ cell[m_queue[n]] /= Pending
            \/ (n = 1 /\ \A k \in 1..Len(m_queue) : cell[m_queue[k]] = Pending)
         /\ \A k \in 1..(n - 1) : cell[m_queue[k]] = Pending
         /\ data_future' = m_queue[n]
         /\ m_queue' = SubSeq(m_queue, 1, n - 1) \o SubSeq(m_queue, n + 1, Len(m_queue))
    /\ UNCHANGED <<cell, qw_m_done, popped>>
    /\ UNCHANGED <<addVars, rtVars, mgrVars, inVars>>

\* pop(): m_queue.wait_and_pop(data_future)
PopWait ==
    /\ data_future = 0
    /\ ~pop_returns_early(qw_m_done)
    /\ wait_and_pop_ready(m_queue)
    /\ data_future' = wait_and_pop_front(m_queue)
    /\ m_queue' = wait_and_pop_rest(m_queue)
    /\ UNCHANGED <<cell, qw_m_done, popped>>
    /\ UNCHANGED <<addVars, rtVars, mgrVars, inVars>>

\* a pop() that runs check_is_done on an empty value when get() raises
PopGetDoneOnFailure ==
    /\ data_future /= 0
    /\ cell[data_future] /= Pending
    /\ popped' = Append(popped, cell[data_future])
    /\ qw_m_done' = IF cell[data_future].k = "val"
                    THEN check_is_done(cell[data_future].v)
                    ELSE check_is_done(EmptyString)
    /\ data_future' = 0
    /\ UNCHANGED <<chanVars, addVars, rtVars, mgrVars, inVars>>

\* pop(): T data = data_future.get(); check_is_done(data); return data;
\* get() blocks until the promise is fulfilled and rethrows a stored failure
PopGet ==
    /\ data_future /= 0
    /\ cell[data_future] /= Pending
    /\ popped' = Append(popped, cell[data_future])
    /\ qw_m_done' = IF cell[data_future].k = "val"
                    THEN check_is_done(cell[data_future].v)
                    ELSE qw_m_done
    /\ data_future' = 0
    /\ UNCHANGED <<chanVars, addVars, rtVars, mgrVars, inVars>>

\* ------------------------------------------------- producers of SpecChan
\* a producer calls add_to_queue(queue, data) or add_to_queue(queue, exception)
ChanAdd ==
    /\ Len(cell) < MaxSlots
    /\ \E c \in Contents : AddToQueuePush(c)
    /\ UNCHANGED <<consVars, rtVars, mgrVars, inVars>>

ChanSet ==
    /\ AddToQueueSet
    /\ UNCHANGED <<consVars, rtVars, mgrVars, inVars>>

\* a parallel producer reserves a slot: queue.push(promise.get_future())
Reserve ==
    /\ Len(cell) < MaxSlots
    /\ cell' = Append(cell, Pending)
    /\ m_queue' = push(m_queue, Len(cell) + 1)
    /\ UNCHANGED <<consVars, addVars, rtVars, mgrVars, inVars>>

\* ... and fulfils it later, from any task, in any order
Fulfil ==
    /\ \E i \in 1..Len(cell), c \in Contents :
         /\ i /= promise
         /\ cell[i] = Pending
         /\ cell' = [cell EXCEPT ![i] = c]
    /\ UNCHANGED <<m_queue, consVars, addVars, rtVars, mgrVars, inVars>>

\* state of the queue and the wrapper after construction
InitChan ==
    /\ m_queue = <<>>
    /\ cell = <<>>
    /\ qw_m_done = FALSE
    /\ data_future = 0
    /\ popped = <<>>
    /\ promise = 0
    /\ promise_data = Pending

\* no ReadThreadManager in SpecChan
InitNoManager ==
    /\ rt_pc = "off"
    /\ data = EmptyString
    /\ exception = EmptyString
    /\ rtm_m_done = FALSE
    /\ m_thread = FALSE
    /\ main_pc = "off"
    /\ alive = FALSE
    /\ reads = <<>>
    /\ term = "eof"
    /\ closeFails = FALSE
    /\ d_pos = 0
    /\ d_closed = 0
    /\ reads_after_stop = 0
    /\ pushes_after_stop = 0
    /\ pops_at_failure = -1

NextChan == ChanAdd \/ ChanSet \/ Reserve \/ Fulfil \/ PopDone \/ PopWait \/ PopGet

\* the consumer task is outside drain() and the destructor
InitNoDrain ==
    /\ qw_pc = "idle"
    /\ escaped = FALSE
    /\ drain_pops = 0

\* outcome of a call on a codec object
NoResult == [k |-> "none", v |-> <<>>]
Ok(x) == [k |-> "ok", v |-> x]
Raised(e) == [k |-> "exc", v |-> <<e>>]

\* the environment when no codec object is under test
NoEnv == [ndebug |-> FALSE, open_fails |-> FALSE, fclose_fails |-> FALSE,
          sync |-> FALSE, fsync_fails |-> FALSE, wc_status |-> "BZ_OK",
          lo32 |-> 0, hi32 |-> 0, errno |-> 0, evict |-> FALSE,
          wide |-> TRUE, room |-> 0, fdopen_fails |-> FALSE]

\* no codec object
InitNoCodec ==
    /\ kind = "none"
    /\ file = <<>>
    /\ plain = <<>>
    /\ fd = 0
    /\ m_file = FALSE
    /\ fd_open = FALSE
    /\ n_fclose = 0
    /\ f_pos = 0
    /\ f_eof = FALSE
    /\ m_bzfile = FALSE
    /\ bz_live = 0
    /\ bz_buf = <<>>
    /\ bz_st = "magic"
    /\ m_stream_end = FALSE
    /\ m_buffer = FALSE
    /\ m_file_size = 0
    /\ result = NoResult
    /\ out = <<>>
    /\ ended = FALSE
    /\ n_after = 0
    /\ late = FALSE
    /\ aborted = FALSE
    /\ destroyed = FALSE
    /\ closes = 0
    /\ env = NoEnv
    /\ lib_bad = ""
    /\ called = FALSE
    /\ advice = <<>>

\* ------------------------------------------------- CompressionFactory
\* translation units that include the codec, lookups followed in main()
MaxUnits == 3
MaxLookups == 3

Kinds == {"bzip2", "gzip"}
Constructors == {"compressor", "decompressor", "buffer_decompressor"}

\* the three closures the header registers for the bzip2 kind
Bzip2Callbacks ==
    [compressor |-> "Bzip2Compressor", decompressor |-> "Bzip2Decompressor",
     buffer_decompressor |-> "Bzip2BufferDecompressor"]

NoCallbacks == [k \in Kinds |-> <<>>]

\* CompressionFactory::register_compression(kind, ...): enters the three
\* constructors for the kind and reports success
register_compression(table, k, cbs) == [table EXCEPT ![k] = <<cbs>>]

\* the process before any dynamic initialization; the constant has internal
\* linkage, so every translation unit that includes the header has its own
InitProcess ==
    /\ includers \in 1..MaxUnits
    /\ registered_bzip2_compression = [u \in 1..includers |-> "none"]
    /\ m_callbacks = NoCallbacks
    /\ n_registered = 0
    /\ started = FALSE
    /\ made = <<>>

\* the process of a program with one translation unit, in main()
InitRegistered ==
    /\ includers = 1
    /\ registered_bzip2_compression = [u \in 1..1 |-> "true"]
    /\ m_callbacks = register_compression(NoCallbacks, "bzip2", Bzip2Callbacks)
    /\ n_registered = 1
    /\ started = TRUE
    /\ made = <<>>

\* the state no registry action touches
nonRegVars == <<chanVars, consVars, addVars, rtVars, mgrVars, reads, term,
                closeFails, drainVars, codecVars>>

\* dynamic initialization of registered_bzip2_compression in unit u
StaticInit(u) ==
    /\ ~started
    /\ registered_bzip2_compression[u] = "none"
    /\ m_callbacks' = register_compression(m_callbacks, "bzip2", Bzip2Callbacks)
    /\ n_registered' = n_registered + 1
    /\ registered_bzip2_compression' =
           [registered_bzip2_compression EXCEPT ![u] = "true"]
    /\ UNCHANGED <<includers, started, made>>
    /\ UNCHANGED nonRegVars

\* the dynamic initializers have all run: main() begins
EnterMain ==
    /\ ~started
    /\ \A u \in 1..includers : registered_bzip2_compression[u] /= "none"
    /\ started' = TRUE
    /\ UNCHANGED <<includers, registered_bzip2_compression, m_callbacks,
                   n_registered, made>>
    /\ UNCHANGED nonRegVars

\* a lookup by kind tag, and the call of one of the constructors found; an
\* unknown kind is an error surfaced to the caller
Lookup(k, c) ==
    /\ started
    /\ Len(made) < MaxLookups
    /\ made' = Append(made, IF m_callbacks[k] = <<>>
                            THEN "unsupported"
                            ELSE m_callbacks[k][1][c])
    /\ UNCHANGED <<includers, registered_bzip2_compression, m_callbacks,
                   n_registered, started>>
    /\ UNCHANGED nonRegVars

InitRegistry ==
    InitChan /\ InitNoManager /\ InitNoDrain /\ InitNoCodec /\ InitProcess

NextRegistry ==
    \/ \E u \in 1..includers : StaticInit(u)
    \/ EnterMain
    \/ \E k \in Kinds, c \in Constructors : Lookup(k, c)

SpecRegistry == InitRegistry /\ [][NextRegistry]_vars

InitQueueOnly ==
    InitChan /\ InitNoManager /\ InitNoDrain /\ InitNoCodec /\ InitRegistered

SpecChan == InitQueueOnly /\ [][NextChan]_vars

\* ------------------------------------------------------------ Decompressor
\* the scripts a decompressor can follow: up to MaxChunks non-empty chunks
Scripts == UNION {[1..n -> ReadChunks] : n \in 0..MaxChunks}

\* what the decompressor does once its chunks are used up: report end of file,
\* raise a failure, or go on delivering data beyond the horizon of the model
Terms == {"eof", "fail", "more"}

\* Decompressor::read(): the outcome of the call that follows n completed calls
read_result(n) ==
    IF n < Len(reads) THEN Val(reads[n + 1])
    ELSE IF term = "fail" THEN Exc(ReadError)
    ELSE Val(EmptyString)

\* Decompressor::close(): the failure it raises, if any
close_result == IF closeFails THEN Exc(CloseError) ELSE Val(EmptyString)

\* ------------------------------------------ ReadThreadManager::run_in_thread
\* a loop that does not look at the stop flag
loop_ignores_stop(done) == TRUE

\* while (!m_done)
loop_continues(done) == ~done

\* if (data.empty()) break;
is_end_of_file(d) == d = EmptyString

\* the catch block dropping the failure
dropped_exception(e) == Val(EmptyString)

\* catch (...) { add_to_queue(m_queue, std::current_exception()); }
caught_exception(e) == Exc(e)

\* the loop test; a stream with more data than the horizon holds keeps the
\* task here until stop is requested
RtLoop ==
    /\ rt_pc = "loop"
    /\ IF loop_continues(rtm_m_done)
       THEN /\ (d_pos < Len(reads) \/ term /= "more")
            /\ rt_pc' = "read"
       ELSE rt_pc' = "close"
    /\ UNCHANGED <<data, exception, d_pos, d_closed, reads_after_stop,
                   pushes_after_stop, pops_at_failure>>
    /\ UNCHANGED <<chanVars, consVars, addVars, mgrVars, inVars>>

\* a read() whose failure takes the task to the close() call
RtReadThenClose ==
    /\ rt_pc = "read"
    /\ d_pos' = d_pos + 1
    /\ reads_after_stop' = reads_after_stop + (IF rtm_m_done THEN 1 ELSE 0)
    /\ LET r == read_result(d_pos) IN
         IF r.k = "exc"
         THEN /\ exception' = r.v
              /\ rt_pc' = "close"
              /\ pops_at_failure' = Len(popped) + (IF data_future /= 0 THEN 1 ELSE 0)
              /\ UNCHANGED data
         ELSE /\ data' = r.v
              /\ rt_pc' = IF is_end_of_file(r.v) THEN "close" ELSE "add_data"
              /\ UNCHANGED <<exception, pops_at_failure>>
    /\ UNCHANGED <<d_closed, pushes_after_stop>>
    /\ UNCHANGED <<chanVars, consVars, addVars, mgrVars, inVars>>

\* std::string data {m_decompressor->read()}; the call returns or raises
RtRead ==
    /\ rt_pc = "read"
    /\ d_pos' = d_pos + 1
    /\ reads_after_stop' = reads_after_stop + (IF rtm_m_done THEN 1 ELSE 0)
    /\ LET r == read_result(d_pos) IN
         IF r.k = "exc"
         THEN /\ exception' = r.v
              /\ rt_pc' = "add_exc"
              /\ pops_at_failure' = Len(popped) + (IF data_future /= 0 THEN 1 ELSE 0)
              /\ UNCHANGED data
         ELSE /\ data' = r.v
              /\ rt_pc' = IF is_end_of_file(r.v) THEN "close" ELSE "add_data"
              /\ UNCHANGED <<exception, pops_at_failure>>
    /\ UNCHANGED <<d_closed, pushes_after_stop>>
    /\ UNCHANGED <<chanVars, consVars, addVars, mgrVars, inVars>>

\* add_to_queue(m_queue, std::move(data)): push
RtAddData ==
    /\ rt_pc = "add_data"
    /\ AddToQueuePush(Val(data))
    /\ rt_pc' = "set_data"
    /\ pushes_after_stop' = pushes_after_stop + (IF rtm_m_done THEN 1 ELSE 0)
    /\ UNCHANGED <<data, exception, d_pos, d_closed, reads_after_stop, pops_at_failure>>
    /\ UNCHANGED <<consVars, mgrVars, inVars>>

\* a loop that reads again after a push without testing the stop flag
RtSetDataNoTest ==
    /\ rt_pc = "set_data"
    /\ AddToQueueSet
    /\ rt_pc' = "read"
    /\ UNCHANGED <<data, exception, d_pos, d_closed, reads_after_stop,
                   pushes_after_stop, pops_at_failure>>
    /\ UNCHANGED <<consVars, mgrVars, inVars>>

\* add_to_queue(m_queue, std::move(data)): set_value
RtSetData ==
    /\ rt_pc = "set_data"
    /\ AddToQueueSet
    /\ rt_pc' = "loop"
    /\ UNCHANGED <<data, exception, d_pos, d_closed, reads_after_stop,
                   pushes_after_stop, pops_at_failure>>
    /\ UNCHANGED <<consVars, mgrVars, inVars>>

\* a close() whose failure is ignored
RtCloseIgnoringFailure ==
    /\ rt_pc = "close"
    /\ d_closed' = d_closed + 1
    /\ rt_pc' = "add_eof"
    /\ UNCHANGED <<data, exception, d_pos, reads_after_stop, pushes_after_stop, pops_at_failure>>
    /\ UNCHANGED <<chanVars, consVars, addVars, mgrVars, inVars>>

\* m_decompressor->close();
RtClose ==
    /\ rt_pc = "close"
    /\ d_closed' = d_closed + 1
    /\ IF close_result.k = "exc"
       THEN /\ exception' = close_result.v
            /\ rt_pc' = "add_exc"
       ELSE /\ rt_pc' = "add_eof"
            /\ UNCHANGED exception
    /\ UNCHANGED <<data, d_pos, reads_after_stop, pushes_after_stop, pops_at_failure>>
    /\ UNCHANGED <<chanVars, consVars, addVars, mgrVars, inVars>>

\* a catch block that pushes an empty string instead of the failure
RtAddExcPushesEmpty ==
    /\ rt_pc = "add_exc"
    /\ AddToQueuePush(Val(EmptyString))
    /\ rt_pc' = "set_exc"
    /\ UNCHANGED <<data, exception, d_pos, d_closed, reads_after_stop,
                   pushes_after_stop, pops_at_failure>>
    /\ UNCHANGED <<consVars, mgrVars, inVars>>

\* add_to_queue(m_queue, std::current_exception()): push
RtAddExc ==
    /\ rt_pc = "add_exc"
    /\ AddToQueuePush(caught_exception(exception))
    /\ rt_pc' = "set_exc"
    /\ UNCHANGED <<data, exception, d_pos, d_closed, reads_after_stop,
                   pushes_after_stop, pops_at_failure>>
    /\ UNCHANGED <<consVars, mgrVars, inVars>>

\* a catch block after which the task returns without the final push
RtSetExcThenExit ==
    /\ rt_pc = "set_exc"
    /\ AddToQueueSet
    /\ rt_pc' = "exit"
    /\ UNCHANGED <<data, exception, d_pos, d_closed, reads_after_stop,
                   pushes_after_stop, pops_at_failure>>
    /\ UNCHANGED <<consVars, mgrVars, inVars>>

\* add_to_queue(m_queue, std::current_exception()): set_exception
RtSetExc ==
    /\ rt_pc = "set_exc"
    /\ AddToQueueSet
    /\ rt_pc' = "add_eof"
    /\ UNCHANGED <<data, exception, d_pos, d_closed, reads_after_stop,
                   pushes_after_stop, pops_at_failure>>
    /\ UNCHANGED <<consVars, mgrVars, inVars>>

\* add_to_queue(m_queue, std::string{}): push
RtAddEof ==
    /\ rt_pc = "add_eof"
    /\ AddToQueuePush(Val(EmptyString))
    /\ rt_pc' = "set_eof"
    /\ UNCHANGED <<data, exception, d_pos, d_closed, reads_after_stop,
                   pushes_after_stop, pops_at_failure>>
    /\ UNCHANGED <<consVars, mgrVars, inVars>>

\* add_to_queue(m_queue, std::string{}): set_value; run_in_thread returns
RtSetEof ==
    /\ rt_pc = "set_eof"
    /\ AddToQueueSet
    /\ rt_pc' = "exit"
    /\ UNCHANGED <<data, exception, d_pos, d_closed, reads_after_stop,
                   pushes_after_stop, pops_at_failure>>
    /\ UNCHANGED <<consVars, mgrVars, inVars>>

\* ------------------------------------------- ReadThreadManager, main task
\* a stop() that flips the flag
StopToggling ==
    /\ alive
    /\ main_pc /= "dtor_join"
    /\ rtm_m_done' = ~rtm_m_done
    /\ UNCHANGED <<m_thread, main_pc, alive>>
    /\ UNCHANGED <<chanVars, consVars, addVars, rtVars, inVars>>

\* stop(): m_done = true; callable from any task
Stop ==
    /\ alive
    /\ main_pc /= "dtor_join"
    /\ rtm_m_done' = TRUE
    /\ UNCHANGED <<m_thread, main_pc, alive>>
    /\ UNCHANGED <<chanVars, consVars, addVars, rtVars, inVars>>

\* a close() of the manager that also closes the decompressor
CloseEnterClosingDecompressor ==
    /\ alive
    /\ main_pc = "idle"
    /\ rtm_m_done' = TRUE
    /\ main_pc' = IF m_thread THEN "join" ELSE "idle"
    /\ d_closed' = IF d_closed = 0 THEN 1 ELSE d_closed
    /\ UNCHANGED <<m_thread, alive>>
    /\ UNCHANGED <<rt_pc, data, exception, d_pos, reads_after_stop,
                   pushes_after_stop, pops_at_failure>>
    /\ UNCHANGED <<chanVars, consVars, addVars, inVars>>

\* close(): stop(); if (m_thread.joinable()) m_thread.join(): up to the join
CloseEnter ==
    /\ alive
    /\ main_pc = "idle"
    /\ rtm_m_done' = TRUE
    /\ main_pc' = IF m_thread THEN "join" ELSE "idle"
    /\ UNCHANGED <<m_thread, alive>>
    /\ UNCHANGED <<chanVars, consVars, addVars, rtVars, inVars>>

\* a join() that returns as soon as the sentinel slot has been appended
JoinReturnEarly ==
    /\ main_pc = "join"
    /\ rt_pc \in {"set_eof", "exit"}
    /\ m_thread' = FALSE
    /\ main_pc' = "idle"
    /\ UNCHANGED <<rtm_m_done, alive>>
    /\ UNCHANGED <<chanVars, consVars, addVars, rtVars, inVars>>

\* close(): m_thread.join() returns once run_in_thread has returned
JoinReturn ==
    /\ main_pc = "join"
    /\ rt_pc = "exit"
    /\ m_thread' = FALSE
    /\ main_pc' = "idle"
    /\ UNCHANGED <<rtm_m_done, alive>>
    /\ UNCHANGED <<chanVars, consVars, addVars, rtVars, inVars>>

\* ~ReadThreadManager(): try { close(); } catch (...) {}: up to the join
DtorEnter ==
    /\ alive
    /\ main_pc = "idle"
    /\ rtm_m_done' = TRUE
    /\ IF m_thread
       THEN /\ main_pc' = "dtor_join"
            /\ UNCHANGED alive
       ELSE /\ main_pc' = "destroyed"
            /\ alive' = FALSE
    /\ UNCHANGED m_thread
    /\ UNCHANGED <<chanVars, consVars, addVars, rtVars, inVars>>

\* ~ReadThreadManager(): the join inside close() returns, the object is gone
DtorJoinReturn ==
    /\ main_pc = "dtor_join"
    /\ rt_pc = "exit"
    /\ m_thread' = FALSE
    /\ main_pc' = "destroyed"
    /\ alive' = FALSE
    /\ UNCHANGED rtm_m_done
    /\ UNCHANGED <<chanVars, consVars, addVars, rtVars, inVars>>

\* the constructor has run: the flag is clear and the thread has been started
InitManager ==
    /\ rt_pc = "loop"
    /\ data = EmptyString
    /\ exception = EmptyString
    /\ rtm_m_done = FALSE
    /\ m_thread = TRUE
    /\ main_pc = "idle"
    /\ alive = TRUE
    /\ reads \in Scripts
    /\ term \in Terms
    /\ closeFails \in BOOLEAN
    /\ d_pos = 0
    /\ d_closed = 0
    /\ reads_after_stop = 0
    /\ pushes_after_stop = 0
    /\ pops_at_failure = -1

Init ==
    InitChan /\ InitManager /\ InitNoDrain /\ InitNoCodec /\ InitRegistered

RunInThread ==
    \/ RtLoop \/ RtRead \/ RtAddData \/ RtSetData \/ RtClose
    \/ RtAddExc \/ RtSetExc \/ RtAddEof \/ RtSetEof

Next ==
    \/ RtLoop \/ RtRead \/ RtAddData \/ RtSetData \/ RtClose
    \/ RtAddExc \/ RtSetExc \/ RtAddEof \/ RtSetEof
    \/ Stop \/ CloseEnter \/ JoinReturn \/ DtorEnter \/ DtorJoinReturn
    \/ PopDone \/ PopWait \/ PopGet

Spec == Init /\ [][Next]_vars

\* the background task is scheduled, a read() in progress returns, and a
\* join() whose thread has exited returns; the consumer and the callers of
\* stop() and close() are free to act or not
FairSpec ==
    /\ Spec
    /\ WF_vars(RunInThread)
    /\ WF_vars(JoinReturn)
    /\ WF_vars(DtorJoinReturn)

\* ------------------------------------------ queue_wrapper::drain, destructor
\* a drain() without the try/catch around pop()
drain_lets_failures_through(c) == FALSE

\* drain(): try { pop(); } catch (...) {}
drain_catches(c) == c.k = "exc"

\* where the consumer task is after drain() has returned
AfterDrain(pc) == IF pc = "dtor" THEN "gone" ELSE "idle"

\* drain() is called: while (!m_done) is tested first
DrainCall ==
    /\ qw_pc = "idle"
    /\ data_future = 0
    /\ qw_pc' = IF qw_m_done THEN "idle" ELSE "drain"
    /\ UNCHANGED <<escaped, drain_pops, reads, term, closeFails, codecVars, regVars>>
    /\ UNCHANGED <<chanVars, consVars, addVars, rtVars, mgrVars>>

\* a destructor that does not drain
WrapperDtorNoDrain ==
    /\ qw_pc = "idle"
    /\ data_future = 0
    /\ qw_pc' = "gone"
    /\ UNCHANGED <<escaped, drain_pops, reads, term, closeFails, codecVars, regVars>>
    /\ UNCHANGED <<chanVars, consVars, addVars, rtVars, mgrVars>>

\* ~queue_wrapper() noexcept { drain(); }
WrapperDtor ==
    /\ qw_pc = "idle"
    /\ data_future = 0
    /\ qw_pc' = IF qw_m_done THEN "gone" ELSE "dtor"
    /\ UNCHANGED <<escaped, drain_pops, reads, term, closeFails, codecVars, regVars>>
    /\ UNCHANGED <<chanVars, consVars, addVars, rtVars, mgrVars>>

\* drain(): pop() up to wait_and_pop
DrainWait ==
    /\ qw_pc \in {"drain", "dtor"}
    /\ PopWait

\* drain(): pop() from data_future.get() on, the catch and the loop test
DrainGet ==
    /\ qw_pc \in {"drain", "dtor"}
    /\ data_future /= 0
    /\ cell[data_future] /= Pending
    /\ popped' = Append(popped, cell[data_future])
    /\ qw_m_done' = IF cell[data_future].k = "val"
                    THEN check_is_done(cell[data_future].v)
                    ELSE qw_m_done
    /\ data_future' = 0
    /\ drain_pops' = drain_pops + 1
    /\ IF cell[data_future].k = "exc" /\ ~drain_catches(cell[data_future])
       THEN /\ escaped' = TRUE
            /\ qw_pc' = AfterDrain(qw_pc)
       ELSE /\ escaped' = escaped
            /\ qw_pc' = IF qw_m_done' THEN AfterDrain(qw_pc) ELSE qw_pc
    /\ UNCHANGED <<reads, term, closeFails, codecVars, regVars>>
    /\ UNCHANGED <<chanVars, addVars, rtVars, mgrVars>>

\* pop() called by the consumer itself
UserPopDone == qw_pc = "idle" /\ PopDone
UserPopWait == qw_pc = "idle" /\ PopWait
UserPopGet == qw_pc = "idle" /\ PopGet

NextDrain ==
    \/ RtLoop \/ RtRead \/ RtAddData \/ RtSetData \/ RtClose
    \/ RtAddExc \/ RtSetExc \/ RtAddEof \/ RtSetEof
    \/ Stop
    \/ UserPopDone \/ UserPopWait \/ UserPopGet
    \/ DrainCall \/ WrapperDtor \/ DrainWait \/ DrainGet

SpecDrain == Init /\ [][NextDrain]_vars

\* the background task is scheduled and a consumer inside drain() keeps running
FairDrain ==
    /\ SpecDrain
    /\ WF_vars(RunInThread)
    /\ WF_vars(DrainWait)
    /\ WF_vars(DrainGet)

\* ------------------------------------------------------------ bzip2 codec
\* sizes, scaled: the library's read buffer, the decompressor's output
\* buffer, the output buffer of the in-memory decompressor
BZ_MAX_UNUSED == 7
input_buffer_size == 2
buffer_size == 2
\* longest plaintext of one stream
MaxPlain == 3
\* read() calls followed after the first empty result, close() calls followed
MaxReadsAfterEnd == 2
MaxCloses == 2

Bytes == {"a", "b"}
Plaintexts == UNION {[1..n -> Bytes] : n \in 0..MaxPlain}

\* one compressed stream: a header, one block per byte, a footer
Enc(b) == IF b = "a" THEN "A" ELSE "B"
Dec(t) == IF t = "A" THEN "a" ELSE "b"
Compress(p) == <<"H">> \o [i \in 1..Len(p) |-> Enc(p[i])] \o <<"E">>

RECURSIVE Flatten(_)
Flatten(ss) == IF ss = <<>> THEN <<>> ELSE Head(ss) \o Flatten(Tail(ss))

\* the file holding the streams compressed from ps, one after the other
Concatenated(ps) == Flatten([i \in 1..Len(ps) |-> Compress(ps[i])])

\* BZ2_bzDecompress: decode from buf into at most room bytes of output; the
\* footer is consumed even when the output is full
RECURSIVE BZ2_bzDecompress(_, _, _, _)
BZ2_bzDecompress(st, buf, room, acc) ==
    IF st = "end"
    THEN [ret |-> "BZ_SEQUENCE_ERROR", st |-> st, buf |-> buf, out |-> acc]
    ELSE IF buf = <<>>
    THEN [ret |-> "BZ_OK", st |-> st, buf |-> buf, out |-> acc]
    ELSE IF st = "magic"
    THEN IF Head(buf) = "H"
         THEN BZ2_bzDecompress("data", Tail(buf), room, acc)
         ELSE [ret |-> "BZ_DATA_ERROR_MAGIC", st |-> st, buf |-> buf, out |-> acc]
    ELSE IF Head(buf) = "E"
    THEN [ret |-> "BZ_STREAM_END", st |-> "end", buf |-> Tail(buf), out |-> acc]
    ELSE IF Head(buf) = "H"
    THEN [ret |-> "BZ_DATA_ERROR", st |-> st, buf |-> buf, out |-> acc]
    ELSE IF Len(acc) = room
    THEN [ret |-> "BZ_OK", st |-> st, buf |-> buf, out |-> acc]
    ELSE BZ2_bzDecompress("data", Tail(buf), room, Append(acc, Dec(Head(buf))))

\* fread(buf, 1, BZ_MAX_UNUSED, f) at position pos: a short read sets the
\* end-of-file indicator
fread(pos, eof) ==
    LET left == Len(file) - pos
        n == IF left < BZ_MAX_UNUSED THEN left ELSE BZ_MAX_UNUSED
    IN [buf |-> SubSeq(file, pos + 1, pos + n),
        pos |-> pos + n,
        eof |-> IF left < BZ_MAX_UNUSED THEN TRUE ELSE eof]

\* myfeof(f): fgetc and ungetc; at the end of the file fgetc sets the indicator
myfeof(pos) == pos = Len(file)

\* BZ2_bzRead on a read handle: fill the input buffer when it is empty and
\* the file is not at its end, decode, until the output is full, the stream
\* ends or the library reports an error
RECURSIVE BZ2_bzRead(_, _, _, _, _)
BZ2_bzRead(st, buf, pos, eof, acc) ==
    LET refill == buf = <<>> /\ ~myfeof(pos)
        eof1 == IF buf = <<>> /\ myfeof(pos) THEN TRUE ELSE eof
        f == IF refill THEN fread(pos, eof1) ELSE [buf |-> buf, pos |-> pos, eof |-> eof1]
        d == BZ2_bzDecompress(st, f.buf, env.room, acc)
        eof2 == IF d.ret = "BZ_OK" /\ myfeof(f.pos) THEN TRUE ELSE f.eof
    IN IF d.ret \notin {"BZ_OK", "BZ_STREAM_END"}
       THEN [bzerror |-> d.ret, out |-> <<>>, st |-> d.st, buf |-> d.buf,
             pos |-> f.pos, eof |-> eof2]
       ELSE IF d.ret = "BZ_OK" /\ myfeof(f.pos) /\ d.buf = <<>>
               /\ Len(d.out) < env.room
       THEN [bzerror |-> "BZ_UNEXPECTED_EOF", out |-> <<>>, st |-> d.st,
             buf |-> d.buf, pos |-> f.pos, eof |-> eof2]
       ELSE IF d.ret = "BZ_STREAM_END"
       THEN [bzerror |-> "BZ_STREAM_END", out |-> d.out, st |-> d.st,
             buf |-> d.buf, pos |-> f.pos, eof |-> eof2]
       ELSE IF Len(d.out) = env.room
       THEN [bzerror |-> "BZ_OK", out |-> d.out, st |-> d.st, buf |-> d.buf,
             pos |-> f.pos, eof |-> eof2]
       ELSE BZ2_bzRead(d.st, d.buf, f.pos, eof2, d.out)

\* BZ2_bzRead on a null handle
BZ2_bzRead_null ==
    [bzerror |-> "BZ_PARAM_ERROR", out |-> <<>>, st |-> bz_st, buf |-> bz_buf,
     pos |-> f_pos, eof |-> f_eof]

\* the variables of the pipeline and of the registry, which no codec call
\* touches
pipeVars == <<chanVars, consVars, addVars, rtVars, mgrVars, reads, term,
              closeFails, drainVars, regVars>>

\* a read() returned x to its caller
Returned(x) ==
    /\ result' = Ok(x)
    /\ IF ended
       THEN /\ n_after' = n_after + 1
            /\ late' = (late \/ x /= <<>>)
            /\ UNCHANGED <<out, ended>>
       ELSE /\ out' = out \o x
            /\ ended' = (x = <<>>)
            /\ UNCHANGED <<n_after, late>>

\* a bzip2_error that records errno whatever the code
bzip2_error_always_errno(error_code) ==
    [k |-> "exc", v |-> <<error_code, env.errno>>]

\* bzip2_error{what, error_code}: the library's status code, and errno when
\* the code is the library's I/O error code
bzip2_error(error_code) ==
    [k |-> "exc",
     v |-> <<error_code, IF error_code = "BZ_IO_ERROR" THEN env.errno ELSE 0>>]

\* the eviction advisory that covers the whole file
WholeFile == 0 - 1

\* a call raised bzip2_error{e} to its caller
Raises(e) ==
    /\ result' = bzip2_error(e)
    /\ UNCHANGED <<out, ended, n_after, late>>

\* ---------------------------------------------------------- file_wrapper
\* file_wrapper::close()
file_wrapper_close ==
    IF ~m_file
    THEN [m_file |-> FALSE, fd_open |-> fd_open, n_fclose |-> n_fclose,
          raised |-> FALSE]
    ELSE IF fd = 1
    THEN [m_file |-> FALSE, fd_open |-> fd_open, n_fclose |-> n_fclose,
          raised |-> FALSE]
    ELSE [m_file |-> FALSE, fd_open |-> FALSE, n_fclose |-> n_fclose + 1,
          raised |-> env.fclose_fails]

\* ~file_wrapper() on a wrapper left in the state c by the owner's close()
file_wrapper_dtor(c) ==
    /\ m_file' = FALSE
    /\ fd_open' = IF c.m_file THEN FALSE ELSE c.fd_open
    /\ n_fclose' = IF c.m_file THEN c.n_fclose + 1 ELSE c.n_fclose

\* the state a close() leaves behind when it touches nothing
Untouched ==
    [m_bzfile |-> m_bzfile, bz_live |-> bz_live, m_file |-> m_file,
     fd_open |-> fd_open, n_fclose |-> n_fclose, m_file_size |-> m_file_size,
     res |-> Ok(<<>>)]

\* the outcome of the close() a destructor makes, whose failure it swallows
Swallowed(res) == IF res.k = "exc" THEN [k |-> "caught", v |-> res.v] ELSE res

\* ------------------------------------------------------ Bzip2Decompressor
\* an advisory issued whatever the offset
advise_always(offset) == IF env.evict THEN <<offset>> ELSE <<>>

\* const auto offset = ftell(...); if (offset > 0 &&
\* want_buffered_pages_removed()) remove_buffered_pages(fd, offset): the
\* advisories issued
advise_consumed(offset) == IF offset > 0 /\ env.evict THEN <<offset>> ELSE <<>>

\* a read() that raises when the open of a fresh stream fails
Bzip2Decompressor_decode_strict ==
    LET r == IF m_bzfile
             THEN BZ2_bzRead(bz_st, bz_buf, f_pos, f_eof, <<>>)
             ELSE BZ2_bzRead_null
        cur == [m_bzfile |-> m_bzfile, bz_live |-> bz_live, bz_buf |-> r.buf,
                bz_st |-> r.st, m_stream_end |-> FALSE, f_pos |-> r.pos,
                f_eof |-> r.eof, res |-> Ok(r.out), bad |-> ""]
    IN IF r.bzerror \notin {"BZ_OK", "BZ_STREAM_END"}
       THEN [cur EXCEPT !.res = bzip2_error(r.bzerror), !.bad = r.bzerror]
       ELSE IF r.bzerror = "BZ_OK"
       THEN cur
       ELSE IF r.eof
       THEN [cur EXCEPT !.m_stream_end = TRUE]
       ELSE IF r.buf /= <<>>
       THEN IF env.open_fails
            THEN [cur EXCEPT !.m_bzfile = FALSE, !.bz_live = bz_live - 1,
                             !.bz_buf = <<>>, !.bad = "BZ_MEM_ERROR",
                             !.res = bzip2_error("BZ_MEM_ERROR")]
            ELSE [cur EXCEPT !.bz_st = "magic"]
       ELSE IF env.open_fails
            THEN [cur EXCEPT !.m_bzfile = FALSE, !.bz_live = bz_live - 1,
                             !.bad = "BZ_MEM_ERROR",
                             !.res = bzip2_error("BZ_MEM_ERROR")]
            ELSE [cur EXCEPT !.bz_st = "magic"]

\* read(), lines 443-488, entered with m_stream_end false: the state it
\* leaves and its outcome
Bzip2Decompressor_decode ==
    LET r == IF m_bzfile
             THEN BZ2_bzRead(bz_st, bz_buf, f_pos, f_eof, <<>>)
             ELSE BZ2_bzRead_null
        cur == [m_bzfile |-> m_bzfile, bz_live |-> bz_live, bz_buf |-> r.buf,
                bz_st |-> r.st, m_stream_end |-> FALSE, f_pos |-> r.pos,
                f_eof |-> r.eof, res |-> Ok(r.out), bad |-> ""]
    IN IF r.bzerror \notin {"BZ_OK", "BZ_STREAM_END"}
       THEN [cur EXCEPT !.res = bzip2_error(r.bzerror), !.bad = r.bzerror]
       ELSE IF r.bzerror = "BZ_OK"
       THEN cur
       ELSE IF r.eof
       THEN [cur EXCEPT !.m_stream_end = TRUE]
       ELSE IF r.buf /= <<>>
       THEN IF env.open_fails
            THEN [cur EXCEPT !.m_bzfile = FALSE, !.bz_live = bz_live - 1,
                             !.bz_buf = <<>>, !.bad = "BZ_MEM_ERROR",
                             !.res = bzip2_error("BZ_MEM_ERROR")]
            ELSE [cur EXCEPT !.bz_st = "magic"]
       ELSE IF env.open_fails
            THEN [cur EXCEPT !.m_bzfile = FALSE, !.bz_live = bz_live - 1,
                             !.m_stream_end = TRUE, !.bad = "BZ_MEM_ERROR"]
            ELSE [cur EXCEPT !.bz_st = "magic"]

\* std::string read()
Bzip2Decompressor_read ==
    /\ kind = "decomp"
    /\ ~destroyed /\ ~aborted /\ closes = 0
    /\ ended => n_after < MaxReadsAfterEnd
    /\ advice' = advise_consumed(f_pos)
    /\ IF ~m_bzfile /\ ~env.ndebug
       THEN /\ aborted' = TRUE
            /\ UNCHANGED <<m_bzfile, bz_live, bz_buf, bz_st, m_stream_end,
                           f_pos, f_eof, result, out, ended, n_after, late,
                           lib_bad, called>>
       ELSE IF m_stream_end
       THEN /\ Returned(<<>>)
            /\ lib_bad' = ""
            /\ called' = FALSE
            /\ UNCHANGED <<m_bzfile, bz_live, bz_buf, bz_st, m_stream_end,
                           f_pos, f_eof, aborted>>
       ELSE \E n \in {Bzip2Decompressor_decode} :
               /\ lib_bad' = n.bad
               /\ called' = TRUE
               /\ m_bzfile' = n.m_bzfile
               /\ bz_live' = n.bz_live
               /\ bz_buf' = n.bz_buf
               /\ bz_st' = n.bz_st
               /\ m_stream_end' = n.m_stream_end
               /\ f_pos' = n.f_pos
               /\ f_eof' = n.f_eof
               /\ IF n.res.k = "exc"
                  THEN Raises(n.res.v[1])
                  ELSE Returned(n.res.v)
               /\ UNCHANGED aborted
    /\ UNCHANGED <<kind, file, plain, fd, m_file, fd_open, n_fclose, m_buffer,
                   m_file_size, destroyed, closes, env>>
    /\ UNCHANGED pipeVars

\* close() that releases whatever the handle state
Bzip2Decompressor_close_unguarded ==
    LET fw == file_wrapper_close
    IN [m_bzfile |-> FALSE, bz_live |-> bz_live - 1, m_file |-> fw.m_file,
        fd_open |-> fw.fd_open, n_fclose |-> n_fclose + 1,
        m_file_size |-> m_file_size,
        res |-> IF env.fclose_fails THEN Raised("fclose failed") ELSE Ok(<<>>)]

\* void close(): the state it leaves and its outcome
Bzip2Decompressor_close_effect ==
    IF m_bzfile
    THEN LET fw == file_wrapper_close
         IN [m_bzfile |-> FALSE, bz_live |-> bz_live - 1, m_file |-> fw.m_file,
             fd_open |-> fw.fd_open, n_fclose |-> fw.n_fclose,
             m_file_size |-> m_file_size,
             res |-> IF fw.raised THEN Raised("fclose failed") ELSE Ok(<<>>)]
    ELSE Untouched

\* the assignments of a close() with effect c
ApplyClose(c) ==
    /\ m_bzfile' = c.m_bzfile
    /\ bz_live' = c.bz_live
    /\ m_file_size' = c.m_file_size

\* close() called by the owner
Bzip2Decompressor_close ==
    /\ kind = "decomp"
    /\ ~destroyed /\ ~aborted /\ closes < MaxCloses
    /\ LET c == Bzip2Decompressor_close_effect
       IN /\ ApplyClose(c)
          /\ m_file' = c.m_file
          /\ fd_open' = c.fd_open
          /\ n_fclose' = c.n_fclose
          /\ result' = c.res
    /\ closes' = closes + 1
    /\ advice' = IF m_bzfile /\ env.evict THEN <<WholeFile>> ELSE <<>>
    /\ UNCHANGED <<kind, file, plain, fd, f_pos, f_eof, bz_buf, bz_st,
                   m_stream_end, m_buffer, out, ended, n_after, late, aborted,
                   destroyed, env, lib_bad, called>>
    /\ UNCHANGED pipeVars

\* ~Bzip2Decompressor(): close() with its failure swallowed, then ~file_wrapper()
Bzip2Decompressor_dtor ==
    /\ kind = "decomp"
    /\ ~destroyed /\ ~aborted
    /\ LET c == Bzip2Decompressor_close_effect
       IN /\ ApplyClose(c)
          /\ file_wrapper_dtor(c)
          /\ result' = Swallowed(c.res)
    /\ destroyed' = TRUE
    /\ advice' = IF m_bzfile /\ env.evict THEN <<WholeFile>> ELSE <<>>
    /\ UNCHANGED <<kind, file, plain, fd, f_pos, f_eof, bz_buf, bz_st,
                   m_stream_end, m_buffer, out, ended, n_after, late, aborted,
                   closes, env, lib_bad, called>>
    /\ UNCHANGED pipeVars

\* -------------------------------------------------------- Bzip2Compressor
\* the range of an unsigned int, scaled from 2^32
Word == 2^4

\* the byte count close() stores: hi << 32 | lo, cast to std::size_t, which
\* has two words, or one in a 32-bit build
file_size_of(hi, lo) ==
    (hi * Word + lo) % (IF env.wide THEN Word * Word ELSE Word)

\* the strings handed to write(), and the most bytes written to one file
WriteData == {<<>>, <<"a">>, <<"a", "b">>}
MaxWritten == 5

\* BZ2_bzWriteClose64 on a handle that took the bytes p: the file it leaves
BZ2_bzWriteClose64(p) ==
    IF env.wc_status = "BZ_OK"
    THEN Compress(p)
    ELSE <<"H">> \o [i \in 1..Len(p) |-> Enc(p[i])]

\* void write(const std::string& data)
Bzip2Compressor_write ==
    /\ kind = "comp"
    /\ ~destroyed /\ closes = 0
    /\ \E d \in WriteData, bzerror \in {"BZ_OK", "BZ_IO_ERROR"} :
          /\ Len(bz_buf) + Len(d) <= MaxWritten
          /\ called' = TRUE
          /\ lib_bad' = IF bzerror \in {"BZ_OK", "BZ_STREAM_END"} THEN "" ELSE bzerror
          /\ IF bzerror /= "BZ_OK" /\ bzerror /= "BZ_STREAM_END"
             THEN /\ result' = bzip2_error(bzerror)
                  /\ UNCHANGED <<bz_buf, plain>>
             ELSE /\ result' = Ok(<<>>)
                  /\ bz_buf' = bz_buf \o d
                  /\ plain' = <<bz_buf \o d>>
    /\ advice' = <<>>
    /\ UNCHANGED <<kind, file, fd, m_file, fd_open, n_fclose, f_pos, f_eof,
                   m_bzfile, bz_live, bz_st, m_stream_end, m_buffer,
                   m_file_size, out, ended, n_after, late, aborted, destroyed,
                   closes, env>>
    /\ UNCHANGED pipeVars

\* void close(): the state it leaves and its outcome
Bzip2Compressor_close_effect ==
    IF m_bzfile
    THEN LET fw == file_wrapper_close
             closed == [m_bzfile |-> FALSE, bz_live |-> bz_live - 1,
                        m_file |-> fw.m_file, fd_open |-> fw.fd_open,
                        n_fclose |-> fw.n_fclose, m_file_size |-> m_file_size,
                        res |-> Ok(<<>>)]
         IN IF env.sync /\ m_file /\ env.fsync_fails
            THEN [Untouched EXCEPT !.m_bzfile = FALSE, !.bz_live = bz_live - 1,
                                   !.res = Raised("Fsync failed")]
            ELSE IF fw.raised
            THEN [closed EXCEPT !.res = Raised("fclose failed")]
            ELSE IF env.wc_status /= "BZ_OK"
            THEN [closed EXCEPT !.res = bzip2_error(env.wc_status)]
            ELSE [closed EXCEPT !.m_file_size = file_size_of(env.hi32, env.lo32)]
    ELSE Untouched

\* close() called by the owner
Bzip2Compressor_close ==
    /\ kind = "comp"
    /\ ~destroyed /\ closes < MaxCloses
    /\ LET c == Bzip2Compressor_close_effect
       IN /\ ApplyClose(c)
          /\ m_file' = c.m_file
          /\ fd_open' = c.fd_open
          /\ n_fclose' = c.n_fclose
          /\ result' = c.res
    /\ file' = IF m_bzfile THEN BZ2_bzWriteClose64(bz_buf) ELSE file
    /\ bz_buf' = IF m_bzfile THEN <<>> ELSE bz_buf
    /\ advice' = <<>>
    /\ closes' = closes + 1
    /\ UNCHANGED <<kind, plain, fd, f_pos, f_eof, bz_st,
                   m_stream_end, m_buffer, out, ended, n_after, late, aborted,
                   destroyed, env, lib_bad, called>>
    /\ UNCHANGED pipeVars

\* ~Bzip2Compressor(): close() with its failure swallowed, then ~file_wrapper()
Bzip2Compressor_dtor ==
    /\ kind = "comp"
    /\ ~destroyed
    /\ LET c == Bzip2Compressor_close_effect
       IN /\ ApplyClose(c)
          /\ file_wrapper_dtor(c)
          /\ result' = Swallowed(c.res)
    /\ file' = IF m_bzfile THEN BZ2_bzWriteClose64(bz_buf) ELSE file
    /\ bz_buf' = IF m_bzfile THEN <<>> ELSE bz_buf
    /\ advice' = <<>>
    /\ destroyed' = TRUE
    /\ UNCHANGED <<kind, plain, fd, f_pos, f_eof, bz_st,
                   m_stream_end, m_buffer, out, ended, n_after, late, aborted,
                   closes, env, lib_bad, called>>
    /\ UNCHANGED pipeVars

\* Bzip2Compressor(fd, sync): file_wrapper(fd, "wb"), which closes the
\* descriptor when fdopen fails unless it is 1, then BZ2_bzWriteOpen; when
\* that fails the constructor raises and the file_wrapper member is destroyed
Bzip2Compressor_ctor ==
    /\ kind = "none"
    /\ result = NoResult
    /\ IF env.fdopen_fails
       THEN /\ result' = Raised("fdopen failed")
            /\ fd_open' = IF fd /= 1 THEN FALSE ELSE fd_open
            /\ UNCHANGED <<kind, plain, m_file, n_fclose, m_bzfile, bz_live>>
       ELSE IF env.open_fails
       THEN /\ result' = bzip2_error("BZ_MEM_ERROR")
            /\ fd_open' = FALSE
            /\ n_fclose' = n_fclose + 1
            /\ UNCHANGED <<kind, plain, m_file, m_bzfile, bz_live>>
       ELSE /\ kind' = "comp"
            /\ plain' = <<<<>>>>
            /\ m_file' = TRUE
            /\ m_bzfile' = TRUE
            /\ bz_live' = 1
            /\ result' = Ok(<<>>)
            /\ UNCHANGED <<fd_open, n_fclose>>
    /\ UNCHANGED <<file, fd, f_pos, f_eof, bz_buf, bz_st, m_stream_end,
                   m_buffer, m_file_size, out, ended, n_after, late, aborted,
                   destroyed, closes, env, lib_bad, called, advice>>
    /\ UNCHANGED pipeVars

\* Bzip2Decompressor(fd) on the file a compressor has written and closed
Bzip2Decompressor_ctor ==
    /\ kind = "comp"
    /\ ~m_bzfile /\ ~fd_open
    /\ kind' = "decomp"
    /\ fd' = 3
    /\ m_file' = TRUE
    /\ fd_open' = TRUE
    /\ n_fclose' = 0
    /\ f_pos' = 0
    /\ f_eof' = FALSE
    /\ m_bzfile' = TRUE
    /\ bz_live' = 1
    /\ bz_buf' = <<>>
    /\ bz_st' = "magic"
    /\ m_stream_end' = FALSE
    /\ m_file_size' = 0
    /\ result' = NoResult
    /\ out' = <<>>
    /\ ended' = FALSE
    /\ n_after' = 0
    /\ late' = FALSE
    /\ destroyed' = FALSE
    /\ closes' = 0
    /\ lib_bad' = ""
    /\ called' = FALSE
    /\ advice' = <<>>
    /\ UNCHANGED <<file, plain, m_buffer, aborted, env>>
    /\ UNCHANGED pipeVars

\* ------------------------------------------------ Bzip2BufferDecompressor
\* BZ2_bzDecompressEnd: frees the stream state unless it is null already
BZ2_bzDecompressEnd(live) == IF live = 1 THEN 0 ELSE live

\* a read() that keeps the buffer reference when the library fails
Bzip2BufferDecompressor_read_keeping ==
    /\ kind = "buf"
    /\ ~destroyed /\ closes = 0
    /\ ended => n_after < MaxReadsAfterEnd
    /\ IF m_buffer
       THEN LET d == BZ2_bzDecompress(bz_st, bz_buf, buffer_size, <<>>)
            IN /\ bz_st' = d.st
               /\ bz_buf' = d.buf
               /\ m_buffer' = (d.ret /= "BZ_STREAM_END")
               /\ called' = TRUE
               /\ lib_bad' = IF d.ret \in {"BZ_OK", "BZ_STREAM_END"} THEN "" ELSE d.ret
               /\ IF d.ret /= "BZ_OK" /\ d.ret /= "BZ_STREAM_END"
                  THEN Raises(d.ret)
                  ELSE Returned(d.out)
       ELSE /\ Returned(<<>>)
            /\ called' = FALSE
            /\ lib_bad' = ""
            /\ UNCHANGED <<bz_st, bz_buf, m_buffer>>
    /\ advice' = <<>>
    /\ UNCHANGED <<kind, file, plain, fd, m_file, fd_open, n_fclose, f_pos,
                   f_eof, m_bzfile, bz_live, m_stream_end, m_file_size,
                   aborted, destroyed, closes, env>>
    /\ UNCHANGED pipeVars

\* std::string read()
Bzip2BufferDecompressor_read ==
    /\ kind = "buf"
    /\ ~destroyed /\ closes = 0
    /\ ended => n_after < MaxReadsAfterEnd
    /\ IF m_buffer
       THEN LET d == BZ2_bzDecompress(bz_st, bz_buf, buffer_size, <<>>)
            IN /\ bz_st' = d.st
               /\ bz_buf' = d.buf
               /\ m_buffer' = (d.ret = "BZ_OK")
               /\ called' = TRUE
               /\ lib_bad' = IF d.ret \in {"BZ_OK", "BZ_STREAM_END"} THEN "" ELSE d.ret
               /\ IF d.ret /= "BZ_OK" /\ d.ret /= "BZ_STREAM_END"
                  THEN Raises(d.ret)
                  ELSE Returned(d.out)
       ELSE /\ Returned(<<>>)
            /\ called' = FALSE
            /\ lib_bad' = ""
            /\ UNCHANGED <<bz_st, bz_buf, m_buffer>>
    /\ advice' = <<>>
    /\ UNCHANGED <<kind, file, plain, fd, m_file, fd_open, n_fclose, f_pos,
                   f_eof, m_bzfile, bz_live, m_stream_end, m_file_size,
                   aborted, destroyed, closes, env>>
    /\ UNCHANGED pipeVars

\* void close()
Bzip2BufferDecompressor_close ==
    /\ kind = "buf"
    /\ ~destroyed /\ closes < MaxCloses
    /\ bz_live' = BZ2_bzDecompressEnd(bz_live)
    /\ result' = Ok(<<>>)
    /\ closes' = closes + 1
    /\ UNCHANGED <<kind, file, plain, fd, m_file, fd_open, n_fclose, f_pos,
                   f_eof, m_bzfile, bz_buf, bz_st, m_stream_end, m_buffer,
                   m_file_size, out, ended, n_after, late, aborted, destroyed,
                   env, lib_bad, called, advice>>
    /\ UNCHANGED pipeVars

\* ~Bzip2BufferDecompressor(): close() with its failure swallowed
Bzip2BufferDecompressor_dtor ==
    /\ kind = "buf"
    /\ ~destroyed
    /\ bz_live' = BZ2_bzDecompressEnd(bz_live)
    /\ result' = Ok(<<>>)
    /\ destroyed' = TRUE
    /\ UNCHANGED <<kind, file, plain, fd, m_file, fd_open, n_fclose, f_pos,
                   f_eof, m_bzfile, bz_buf, bz_st, m_stream_end, m_buffer,
                   m_file_size, out, ended, n_after, late, aborted, closes,
                   env, lib_bad, called, advice>>
    /\ UNCHANGED pipeVars

\* ------------------------------------------------- codec objects, created
\* the plaintexts whose stream fills the library's read buffer exactly
ExactFit == [1..(BZ_MAX_UNUSED - 2) -> Bytes]

\* the files a decompressor is given: one stream or two, one after the other
StreamLists ==
    {<<p>> : p \in Plaintexts \cup ExactFit} \cup {<<p, q>> : p, q \in Plaintexts}

\* the state shared by all freshly constructed codec objects
InitCodecCommon ==
    /\ n_fclose = 0
    /\ f_pos = 0
    /\ f_eof = FALSE
    /\ bz_live = 1
    /\ bz_st = "magic"
    /\ m_stream_end = FALSE
    /\ m_file_size = 0
    /\ result = NoResult
    /\ out = <<>>
    /\ ended = FALSE
    /\ n_after = 0
    /\ late = FALSE
    /\ aborted = FALSE
    /\ destroyed = FALSE
    /\ closes = 0
    /\ lib_bad = ""
    /\ called = FALSE
    /\ advice = <<>>

\* Bzip2Decompressor(fd) has returned
InitDecompressor ==
    /\ kind = "decomp"
    /\ plain \in StreamLists
    /\ file = Concatenated(plain)
    /\ fd \in {0, 3}
    /\ m_file = TRUE
    /\ fd_open = TRUE
    /\ m_bzfile = TRUE
    /\ bz_buf = <<>>
    /\ m_buffer = FALSE
    /\ \E nd, of, cf \in BOOLEAN, rm \in {input_buffer_size, BZ_MAX_UNUSED} :
          env = [NoEnv EXCEPT !.ndebug = nd, !.open_fails = of,
                              !.fclose_fails = cf, !.room = rm]

\* errno after a failed write to the file
EIO == 5

\* Bzip2Compressor(fd, sync) has returned
InitCompressor ==
    /\ kind = "comp"
    /\ plain = <<<<>>>>
    /\ file = <<>>
    /\ fd \in {1, 3}
    /\ m_file = TRUE
    /\ fd_open = TRUE
    /\ m_bzfile = TRUE
    /\ bz_buf = <<>>
    /\ m_buffer = FALSE
    /\ \E sy, ff, cf, wd \in BOOLEAN, ws \in {"BZ_OK", "BZ_IO_ERROR"},
          hi \in {0, 1}, lo \in {0, 5} :
          /\ ff => sy
          /\ hi = 1 => lo = 5
          /\ env = [NoEnv EXCEPT !.sync = sy, !.fsync_fails = ff,
                                 !.fclose_fails = cf, !.wc_status = ws,
                                 !.hi32 = hi, !.lo32 = lo, !.wide = wd,
                                 !.errno = EIO]

\* a buffer that lost its first byte, and one that lost its last
Damaged(f) == {Tail(f), SubSeq(f, 1, Len(f) - 1)}

\* Bzip2BufferDecompressor(buffer, size) has returned
InitBufferDecompressor ==
    /\ kind = "buf"
    /\ plain \in StreamLists
    /\ file \in {Concatenated(plain)} \cup Damaged(Concatenated(plain))
    /\ fd = 0
    /\ m_file = FALSE
    /\ fd_open = FALSE
    /\ m_bzfile = FALSE
    /\ bz_buf = file
    /\ m_buffer = TRUE
    /\ env = NoEnv

InitCodec ==
    /\ InitChan /\ InitNoManager /\ InitNoDrain /\ InitRegistered
    /\ InitCodecCommon
    /\ InitDecompressor \/ InitCompressor \/ InitBufferDecompressor

NextCodec ==
    \/ Bzip2Decompressor_read
    \/ Bzip2Decompressor_close
    \/ Bzip2Decompressor_dtor
    \/ Bzip2Compressor_close
    \/ Bzip2Compressor_dtor
    \/ Bzip2BufferDecompressor_read
    \/ Bzip2BufferDecompressor_close
    \/ Bzip2BufferDecompressor_dtor

SpecCodec == InitCodec /\ [][NextCodec]_vars

\* ------------------------------------- a file written, then read back
\* Bzip2Compressor(fd, sync) has returned, on a regular file and without
\* fsync; the decompressor that reads the file back has the environment's
\* eviction toggle and may be refused a new library stream. Its read buffer
\* is shorter than the plaintexts or, as in the build, longer than the
\* library's buffer
InitWriter ==
    /\ kind = "comp"
    /\ plain = <<<<>>>>
    /\ file = <<>>
    /\ fd = 3
    /\ m_file = TRUE
    /\ fd_open = TRUE
    /\ m_bzfile = TRUE
    /\ bz_buf = <<>>
    /\ m_buffer = FALSE
    /\ \E of, ev \in BOOLEAN, ws \in {"BZ_OK", "BZ_IO_ERROR"},
          rm \in {input_buffer_size, BZ_MAX_UNUSED} :
          env = [NoEnv EXCEPT !.open_fails = of, !.evict = ev,
                              !.wc_status = ws, !.errno = EIO, !.room = rm]

InitRoundTrip ==
    /\ InitChan /\ InitNoManager /\ InitNoDrain /\ InitRegistered
    /\ InitCodecCommon
    /\ InitWriter

NextRoundTrip ==
    \/ Bzip2Compressor_write
    \/ Bzip2Compressor_close
    \/ Bzip2Compressor_dtor
    \/ Bzip2Decompressor_ctor
    \/ Bzip2Decompressor_read
    \/ Bzip2Decompressor_close
    \/ Bzip2Decompressor_dtor

SpecRoundTrip == InitRoundTrip /\ [][NextRoundTrip]_vars

\* ------------------------------------- a compressor from its construction
\* an open descriptor, stdout or a file, about to be handed to
\* Bzip2Compressor(fd, sync)
InitDescriptor ==
    /\ kind = "none"
    /\ plain = <<>>
    /\ file = <<>>
    /\ fd \in {1, 3}
    /\ m_file = FALSE
    /\ fd_open = TRUE
    /\ n_fclose = 0
    /\ f_pos = 0
    /\ f_eof = FALSE
    /\ m_bzfile = FALSE
    /\ bz_live = 0
    /\ bz_buf = <<>>
    /\ bz_st = "magic"
    /\ m_stream_end = FALSE
    /\ m_buffer = FALSE
    /\ m_file_size = 0
    /\ result = NoResult
    /\ out = <<>>
    /\ ended = FALSE
    /\ n_after = 0
    /\ late = FALSE
    /\ aborted = FALSE
    /\ destroyed = FALSE
    /\ closes = 0
    /\ lib_bad = ""
    /\ called = FALSE
    /\ advice = <<>>
    /\ \E fo, of, sy, ff, cf \in BOOLEAN, ws \in {"BZ_OK", "BZ_IO_ERROR"} :
          /\ ff => sy
          /\ env = [NoEnv EXCEPT !.fdopen_fails = fo, !.open_fails = of,
                                 !.sync = sy, !.fsync_fails = ff,
                                 !.fclose_fails = cf, !.wc_status = ws,
                                 !.errno = EIO]

InitLifetime ==
    /\ InitChan /\ InitNoManager /\ InitNoDrain /\ InitRegistered
    /\ InitDescriptor

NextLifetime ==
    \/ Bzip2Compressor_ctor
    \/ Bzip2Compressor_write
    \/ Bzip2Compressor_close
    \/ Bzip2Compressor_dtor

SpecLifetime == InitLifetime /\ [][NextLifetime]_vars

\* ------------------------------------------------------ channel properties
Sentinel == Val(EmptyString)

\* slots taken off the queue so far
Taken == Len(cell) - Len(m_queue)

\* completed pop() calls that took a slot off the queue
ChannelPops == Taken - (IF data_future /= 0 THEN 1 ELSE 0)

\* C1 as stated: for every sequence of N appended slots, the i-th pop() returns
\* the content of the i-th appended slot, whatever the order of fulfilment
C1_PopOrderAnySequence ==
    \A i \in 1..Len(popped) : i <= Len(cell) => popped[i] = cell[i]

\* C1 amended: as long as no earlier pop() returned the empty sentinel, the i-th
\* pop() returns the content of the i-th appended slot, whatever the order in
\* which the slots are fulfilled; the queue keeps the append order and a pop()
\* holding an unfulfilled slot waits for that slot instead of taking a later one
C1_PopOrderUntilSentinel ==
    /\ \A i \in 1..Len(popped) :
         (\A j \in 1..(i - 1) : popped[j] /= Sentinel)
            => (i <= Len(cell) /\ cell[i] /= Pending /\ popped[i] = cell[i])
    /\ \A k \in 1..Len(m_queue) : m_queue[k] = Taken + k
    /\ data_future /= 0 => (data_future = Taken /\ ChannelPops = Len(popped))

\* two pops done in order while the third slot is still unfulfilled although
\* the fourth was fulfilled before it, with the consumer blocked on the third
C1_Witness ==
    /\ Len(popped) = 2 /\ popped[1] = Val("B") /\ popped[2] = Val("A")
    /\ Len(cell) = 4
    /\ data_future = 3 /\ cell[3] = Pending /\ cell[4] = Val("C")

\* C5: the wrapper is ACTIVE until a pop() returns the empty sentinel and DONE
\* from then on; the sentinel is the last item taken from the channel and is
\* taken once; DONE is never left; for slots A,B,C,"" four pops return
\* A,B,C,"" and the wrapper is DONE only after the fourth
C5_DoneAtSentinel ==
    /\ [](qw_m_done <=> \E i \in 1..Len(popped) : popped[i] = Sentinel)
    /\ [](/\ ChannelPops <= Len(popped)
          /\ \A i \in 1..ChannelPops : popped[i] = Sentinel => i = ChannelPops
          /\ qw_m_done => (data_future = 0 /\ popped[ChannelPops] = Sentinel))
    /\ [][qw_m_done => qw_m_done']_vars
    /\ []((/\ Len(cell) >= 4
           /\ SubSeq(cell, 1, 4) = <<Val("A"), Val("B"), Val("C"), Sentinel>>)
          => /\ Len(popped) < 4 => ~qw_m_done
             /\ Len(popped) >= 4 =>
                  (qw_m_done /\ SubSeq(popped, 1, 4) = SubSeq(cell, 1, 4)))

\* A, B, C and the sentinel were pushed and popped with four pop() calls
C5_Witness ==
    /\ cell = <<Val("A"), Val("B"), Val("C"), Sentinel>>
    /\ popped = cell
    /\ qw_m_done

\* C6: from a DONE wrapper every pop() returns the empty value, takes nothing
\* off the queue, leaves the wrapper state alone and is never blocked,
\* whatever the queue holds
C6_PopWhenDoneHasNoEffect ==
    /\ [][qw_m_done =>
            /\ popped' \in {popped, Append(popped, Sentinel)}
            /\ IsPrefix(m_queue, m_queue')
            /\ IsPrefix(cell, cell') \/ Len(cell') = Len(cell)
            /\ UNCHANGED <<qw_m_done, data_future>>]_vars
    /\ [][PopDone => UNCHANGED <<m_queue, cell, qw_m_done, data_future>>]_vars
    /\ []((qw_m_done /\ Len(popped) < MaxPops) => ENABLED PopDone)

\* pop() was called twice on a DONE wrapper while the queue held a fulfilled
\* slot and an unfulfilled one
C6_Witness ==
    /\ qw_m_done
    /\ Len(popped) >= 3
    /\ popped[Len(popped)] = Sentinel /\ popped[Len(popped) - 1] = Sentinel
    /\ popped[Len(popped) - 2] = Sentinel
    /\ Len(m_queue) = 2
    /\ cell[m_queue[1]] = Val("A") /\ cell[m_queue[2]] = Pending

\* ----------------------------------------------------- pipeline properties
\* s up to and including its first sentinel
UpToDone(s) ==
    IF \E i \in 1..Len(s) : s[i] = Sentinel
    THEN SubSeq(s, 1, CHOOSE i \in 1..Len(s) :
                        s[i] = Sentinel /\ \A j \in 1..(i - 1) : s[j] /= Sentinel)
    ELSE s

\* the first n chunks of the decompressor as pop() outcomes
DataVals(n) == [i \in 1..n |-> Val(reads[i])]

\* what a synchronous loop "read until empty, then close" delivers
SyncLoop ==
    DataVals(Len(reads))
      \o (IF term = "fail" THEN <<Exc(ReadError)>>
          ELSE IF closeFails THEN <<Exc(CloseError)>> ELSE <<>>)
      \o <<Sentinel>>

\* what the same loop delivers when it is stopped after n chunks
StoppedLoop(n) ==
    DataVals(n) \o (IF closeFails THEN <<Exc(CloseError)>> ELSE <<>>) \o <<Sentinel>>

\* C2: the background task pushes the empty string exactly once, as its last
\* push, whether it ends by end of file, stop, read failure or close failure;
\* everything pushed before is a non-empty chunk or a failure
C2_OneSentinelLast ==
    /\ [](\A i \in 1..Len(cell) :
            cell[i] = Sentinel => (i = Len(cell) /\ rt_pc = "exit"))
    /\ [](rt_pc = "exit" =>
            /\ Len(cell) >= 1
            /\ cell[Len(cell)] = Sentinel
            /\ \A i \in 1..(Len(cell) - 1) :
                 \/ cell[i].k = "exc"
                 \/ (cell[i].k = "val" /\ cell[i].v /= EmptyString))
    /\ [][(rt_pc \in {"set_eof", "exit"}) =>
            (Len(cell') = Len(cell) /\ Len(m_queue') <= Len(m_queue))]_vars

\* the task was stopped after one chunk, close() failed, and the failure and
\* then the sentinel were pushed
C2_Witness ==
    /\ rt_pc = "exit"
    /\ rtm_m_done
    /\ Len(reads) = 2
    /\ cell = <<Val(reads[1]), Exc(CloseError), Sentinel>>

\* C3 as stated: the first pop() begun after a read() failed raises that
\* failure and the pop() after it returns the sentinel
C3_NextPopRaises ==
    pops_at_failure >= 0 =>
        /\ Len(popped) > pops_at_failure =>
              popped[pops_at_failure + 1] = Exc(ReadError)
        /\ Len(popped) > pops_at_failure + 1 =>
              popped[pops_at_failure + 2] = Sentinel

\* C3 amended: when a read() fails, the pop() calls first return the chunks
\* read before it, in order; the next pop() raises that failure and the one
\* after it returns the sentinel
C3_PopRaisesAfterData ==
    pops_at_failure >= 0 =>
        /\ \A i \in 1..Len(popped) :
              i <= Len(reads) => popped[i] = Val(reads[i])
        /\ Len(popped) > Len(reads) => popped[Len(reads) + 1] = Exc(ReadError)
        /\ Len(popped) > Len(reads) + 1 => popped[Len(reads) + 2] = Sentinel

\* the third read() failed; two chunks, the failure and the sentinel were popped
C3_Witness ==
    /\ pops_at_failure >= 0
    /\ Len(reads) = 2
    /\ popped = <<Val(reads[1]), Val(reads[2]), Exc(ReadError), Sentinel>>

\* C4: the outcomes of pop() up to DONE are those of the synchronous loop:
\* without a stop request exactly SyncLoop, with one the loop stopped after
\* some number of chunks (or SyncLoop itself)
C4_EquivalentToSyncLoop ==
    /\ ~rtm_m_done =>
          /\ IsPrefix(UpToDone(popped), SyncLoop)
          /\ qw_m_done => (term /= "more" /\ UpToDone(popped) = SyncLoop)
    /\ \E n \in 0..Len(reads) :
          \E t \in {StoppedLoop(n)} \cup (IF term = "more" THEN {} ELSE {SyncLoop}) :
             /\ IsPrefix(UpToDone(popped), t)
             /\ qw_m_done => UpToDone(popped) = t
    /\ \A i \in 1..Len(popped) :
          (i > Len(UpToDone(popped))) => popped[i] = Sentinel

\* no stop: two chunks, the close() failure and the sentinel were popped
C4_Witness ==
    /\ ~rtm_m_done
    /\ qw_m_done
    /\ Len(reads) = 2 /\ reads[1] /= reads[2]
    /\ popped = <<Val(reads[1]), Val(reads[2]), Exc(CloseError), Sentinel>>

\* C7: once stop has been requested and close() waits in join() while the
\* task is inside read(), close() returns
C7_CloseReturnsAfterRead ==
    (rtm_m_done /\ rt_pc = "read" /\ main_pc \in {"join", "dtor_join"}) ~> ~m_thread

\* close() returned on a stream with more data, after the read() that was in
\* progress at the stop, with nothing popped
C7_Witness ==
    /\ ~m_thread
    /\ term = "more"
    /\ reads_after_stop = 1
    /\ d_pos < Len(reads)
    /\ popped = <<>> /\ data_future = 0

\* C8: once close() has returned the task has exited and the sentinel is the
\* last slot; nothing is pushed later; another close() and the destructor's
\* close() return at once and change nothing; the destructor ends with the
\* thread joined
C8_CloseJoins ==
    /\ [](~m_thread =>
            /\ rt_pc = "exit"
            /\ promise = 0
            /\ Len(cell) >= 1 /\ cell[Len(cell)] = Sentinel)
    /\ [][~m_thread => (cell' = cell /\ Len(m_queue') <= Len(m_queue))]_vars
    /\ [][(CloseEnter /\ ~m_thread) => UNCHANGED vars]_vars
    /\ [][(DtorEnter /\ ~m_thread) =>
            /\ main_pc' = "destroyed"
            /\ UNCHANGED <<chanVars, consVars, addVars, rtVars, inVars,
                           rtm_m_done, m_thread>>]_vars
    /\ []((alive /\ main_pc = "idle") => (ENABLED CloseEnter /\ ENABLED DtorEnter))
    /\ [](~alive => (~m_thread /\ main_pc = "destroyed"))

\* close() has returned after a stop during a read(); the manager is still
\* alive and the queue holds a chunk and the sentinel
C8_Witness ==
    /\ ~m_thread /\ alive /\ main_pc = "idle"
    /\ reads_after_stop = 1
    /\ Len(m_queue) = 2
    /\ cell[Len(cell)] = Sentinel

\* C9: after stop() at most one read() returns and at most one chunk is
\* pushed; a read() in progress is left only by its own return; the loop is
\* left for close() only at its test, on a set flag, or on an empty read()
C9_CooperativeStop ==
    /\ [](reads_after_stop <= 1 /\ pushes_after_stop <= 1)
    /\ [][rt_pc = "read" => (rt_pc' = "read" \/ d_pos' = d_pos + 1)]_vars
    /\ [][(rt_pc /= "close" /\ rt_pc' = "close") =>
            \/ (rt_pc = "loop" /\ rtm_m_done)
            \/ (rt_pc = "read" /\ read_result(d_pos) = Val(EmptyString))]_vars
    /\ [][d_closed >= 1 => d_pos' = d_pos]_vars

\* stop() came during the first read(); that read() returned, its chunk was
\* pushed, and the task closed and exited with a chunk left unread
C9_Witness ==
    /\ rt_pc = "exit"
    /\ reads_after_stop = 1 /\ pushes_after_stop = 1
    /\ Len(reads) = 2 /\ d_pos = 1
    /\ d_closed = 1

\* C10: stop() sets the flag and nothing else, is idempotent, is never
\* blocked, and the flag is never cleared
C10_StopOnlySetsFlag ==
    /\ [][Stop => rtm_m_done']_vars
    /\ [][Stop => UNCHANGED <<chanVars, consVars, addVars, rtVars, inVars>>]_vars
    /\ [][Stop => UNCHANGED <<m_thread, main_pc, alive>>]_vars
    /\ [][(Stop /\ rtm_m_done) => UNCHANGED vars]_vars
    /\ [][rtm_m_done => rtm_m_done']_vars
    /\ []((alive /\ main_pc /= "dtor_join") => ENABLED Stop)

\* stop() was called after the task had read to the end of file and exited,
\* and before any close()
C10_Witness ==
    /\ rtm_m_done
    /\ m_thread /\ main_pc = "idle"
    /\ rt_pc = "exit"
    /\ term = "eof" /\ d_pos = Len(reads) + 1
    /\ reads_after_stop = 0

\* ------------------------------------------------- failures in the pipeline
\* the slots that hold a failure
FailedSlots == {i \in 1..Len(cell) : cell[i].k = "exc"}

\* a read() of the background task has raised
ReadFailed == pops_at_failure >= 0

\* the close() of the background task has raised
CloseFailed == d_closed >= 1 /\ closeFails

\* C11: a failure of read() or close() in the background task is pushed as one
\* failed slot directly before the sentinel and the task goes on to its end;
\* there is never a second failed slot, and the slot holds the one failure
\* that occurred
C11_FailureForwardedOnce ==
    /\ Cardinality(FailedSlots) <= 1
    /\ \A i \in FailedSlots :
         /\ rt_pc \in {"add_eof", "set_eof", "exit"}
         /\ i = Len(cell) - (IF rt_pc = "add_eof" THEN 0 ELSE 1)
         /\ cell[i] = Exc(IF ReadFailed THEN ReadError ELSE CloseError)
    /\ ~(ReadFailed /\ d_closed >= 1)
    /\ (ReadFailed \/ CloseFailed) =>
          rt_pc \in {"add_exc", "set_exc", "add_eof", "set_eof", "exit"}
    /\ rt_pc \in {"add_eof", "set_eof", "exit"} =>
          ((ReadFailed \/ CloseFailed) <=> FailedSlots /= {})
    /\ Cardinality({i \in 1..Len(popped) : popped[i].k = "exc"}) <= 1

\* the second read() failed; the chunk, the failure and the sentinel were
\* pushed and popped
C11_Witness ==
    /\ rt_pc = "exit"
    /\ ReadFailed
    /\ Len(reads) = 1
    /\ cell = <<Val(reads[1]), Exc(ReadError), Sentinel>>
    /\ popped = cell

\* C12: when the first read() fails, the first pop() raises that failure and
\* the second pop() returns the sentinel and makes the wrapper DONE
C12_FirstReadFails ==
    (Len(reads) = 0 /\ ReadFailed) =>
        /\ Len(popped) >= 1 => popped[1] = Exc(ReadError)
        /\ Len(popped) >= 2 => popped[2] = Sentinel
        /\ qw_m_done <=> Len(popped) >= 2

\* the first read() failed and exactly two pop() calls were made
C12_Witness ==
    /\ Len(reads) = 0 /\ ReadFailed
    /\ Len(popped) = 2
    /\ qw_m_done

\* C13: a pop() whose slot holds a failure raises that failure, has taken the
\* slot off the queue and leaves m_done as it was; the next pop() goes on with
\* the next slot
C13_FailurePopped ==
    /\ [][(data_future /= 0 /\ data_future' = 0 /\ cell[data_future].k = "exc") =>
            /\ popped' = Append(popped, cell[data_future])
            /\ qw_m_done' = qw_m_done
            /\ ~qw_m_done'
            /\ \A k \in 1..Len(m_queue') : m_queue'[k] /= data_future]_vars
    /\ [](\A i \in 1..Len(popped) :
            (popped[i].k = "exc" /\ \A j \in 1..i : popped[j] /= Sentinel)
               => /\ popped[i] = cell[i]
                  /\ Len(popped) > i => popped[i + 1] = cell[i + 1]
                  /\ Len(popped) = i => ~qw_m_done)

\* a failure was popped, the wrapper stayed ACTIVE and the next pop() returned
\* the chunk behind it
C13_Witness ==
    /\ popped = <<Exc(OtherError), Val("A")>>
    /\ ~qw_m_done
    /\ Len(m_queue) = 1

\* --------------------------------------------------------- drain properties
\* the sentinel has been taken off the queue, with every slot before it
SentinelTaken == \E i \in 1..Len(cell) : cell[i] = Sentinel /\ i <= Taken

\* C14: once the sentinel is in the queue a drain() on an ACTIVE wrapper
\* returns; it returns only with the wrapper DONE, the sentinel and every slot
\* before it taken, and without a failure leaving it; on a DONE wrapper it
\* returns at once and changes nothing
C14_DrainTerminatesDone ==
    /\ (qw_pc = "drain" /\ rt_pc = "exit") ~> (qw_pc = "idle" /\ qw_m_done)
    /\ [][(qw_pc = "drain" /\ qw_pc' /= "drain") =>
            /\ qw_pc' = "idle"
            /\ qw_m_done'
            /\ data_future' = 0
            /\ popped'[Len(popped')] = Sentinel
            /\ SentinelTaken']_vars
    /\ [](~escaped)
    /\ [][(DrainCall /\ qw_m_done) => UNCHANGED vars]_vars

\* drain() took a chunk, a failure and the sentinel off the queue and returned
C14_Witness ==
    /\ qw_pc = "idle"
    /\ qw_m_done
    /\ drain_pops = 3
    /\ Len(popped) = 3 /\ popped[2] = Exc(CloseError) /\ popped[3] = Sentinel
    /\ m_queue = <<>>

\* C15: when the destructor of a queue_wrapper has returned, the wrapper is
\* DONE, the sentinel and every slot the producer pushed before it have been
\* taken off the queue, and no failure has left the destructor
C15_DestructorDrains ==
    /\ qw_pc = "gone" =>
          /\ qw_m_done
          /\ data_future = 0
          /\ SentinelTaken
          /\ m_queue = <<>>
          /\ rt_pc = "exit"
    /\ ~escaped
    /\ qw_pc = "dtor" => ~qw_m_done

\* the wrapper was destroyed after one pop() of its own; its destructor took
\* the pending failure and the sentinel
C15_Witness ==
    /\ qw_pc = "gone"
    /\ drain_pops = 2
    /\ Len(popped) = 3 /\ popped[2] = Exc(ReadError)

\* ------------------------------------------------ ownership of the decompressor
\* C16: read() and close() of the decompressor are called by steps of
\* run_in_thread only, one at a time and never again after close(); the
\* consumer changes only the queue and its own state, the manager calls only
\* the stop flag and the thread handle, and the background task leaves the
\* consumer's and the manager's state alone
C16_DecompressorOwnedByTask ==
    /\ [][(d_pos' /= d_pos \/ d_closed' /= d_closed) =>
            /\ rt_pc \in {"read", "close"}
            /\ rt_pc' /= rt_pc
            /\ UNCHANGED <<consVars, mgrVars>>]_vars
    /\ [][(d_pos' /= d_pos) => (d_closed' = d_closed /\ d_closed = 0)]_vars
    /\ [](d_closed <= 1)
    /\ [][(consVars' /= consVars) =>
            UNCHANGED <<cell, addVars, mgrVars, rt_pc, data, exception, d_pos, d_closed>>]_vars
    /\ [][(mgrVars' /= mgrVars) =>
            UNCHANGED <<chanVars, consVars, addVars, rt_pc, data, exception,
                        d_pos, d_closed>>]_vars
    /\ [][(rt_pc' /= rt_pc) => UNCHANGED <<consVars, mgrVars>>]_vars

\* three read() calls and the close() were made while the consumer popped and
\* the manager's close() returned
C16_Witness ==
    /\ d_pos = 3 /\ d_closed = 1
    /\ ~m_thread /\ alive
    /\ Len(popped) = 2 /\ ~qw_m_done
    /\ reads_after_stop = 0

\* ------------------------------------------------------ codec properties
\* the file holds two streams and no library call is made to fail
TwoStreams == kind = "decomp" /\ Len(plain) = 2 /\ ~env.open_fails

\* the reader has stopped: read() returned empty or raised
ReadingOver == closes = 0 /\ ~destroyed /\ (ended \/ result.k = "exc")

\* C17: for every pair of plaintexts, reading a Bzip2Decompressor over the
\* concatenation of the two compressed streams until read() returns empty
\* ends with an empty result, not a failure, and yields the concatenation of
\* the two plaintexts
C17_TwoStreamsRead ==
    (TwoStreams /\ ReadingOver)
        => (result.k /= "exc" /\ ~aborted /\ out = plain[1] \o plain[2])

\* C18: read() returns empty only when no stream and no undecoded input is
\* left; after the first empty result every later read() returns empty; the
\* stream-ended flag is never cleared
C18_EmptyOnlyAtEnd ==
    /\ [][(Bzip2Decompressor_read /\ ~env.open_fails /\ result' = Ok(<<>>))
            => (f_pos' = Len(file) /\ bz_buf' = <<>>)]_vars
    /\ [](kind = "decomp" => ~late)
    /\ [][m_stream_end => m_stream_end']_vars

\* a close() of a codec object by its owner, and the destruction of one
CodecClose ==
    Bzip2Decompressor_close \/ Bzip2Compressor_close \/ Bzip2BufferDecompressor_close
CodecDtor ==
    Bzip2Decompressor_dtor \/ Bzip2Compressor_dtor \/ Bzip2BufferDecompressor_dtor

\* C19: a close() of a Bzip2Compressor, Bzip2Decompressor or
\* Bzip2BufferDecompressor that follows an earlier close(), the one made by
\* the destructor included and whether or not the earlier one raised, raises
\* nothing, releases no library handle and no file again, and leaves the
\* handle state and file_size as they were
C19_CloseIdempotent ==
    /\ [][(closes >= 1 /\ CodecClose)
            => (/\ result'.k = "ok"
                /\ UNCHANGED <<m_bzfile, bz_live, m_file, fd_open, n_fclose,
                               m_file_size, m_buffer, bz_st, bz_buf,
                               m_stream_end>>)]_vars
    /\ [][(closes >= 1 /\ CodecDtor)
            => (/\ result'.k = "ok"
                /\ UNCHANGED <<m_bzfile, bz_live, m_file_size, m_buffer,
                               bz_st, bz_buf, m_stream_end>>)]_vars
    /\ [](bz_live \in {0, 1} /\ n_fclose <= 1)

\* a second close() has returned on a compressor whose first close() raised
\* the finalize status
C19_Witness ==
    /\ kind = "comp"
    /\ closes = 2
    /\ env.wc_status = "BZ_IO_ERROR"
    /\ m_file_size = 0
    /\ result.k = "ok"

\* C20: close() on an open Bzip2Compressor closes the underlying file,
\* whatever the finalize status and whether or not fsync is configured or
\* succeeds
C20_CloseAlwaysClosesFile ==
    [][(Bzip2Compressor_close /\ m_bzfile) => ~fd_open']_vars

\* C21: after Bzip2Decompressor::close() has returned or raised, whatever
\* read() calls came before it, the library read handle is released and the
\* underlying file is closed
C21_CloseReleasesAll ==
    [][Bzip2Decompressor_close => (bz_live' = 0 /\ ~fd_open' /\ ~m_file')]_vars

\* the reader of a file that a compressor wrote and finalized without failure,
\* in an environment that refuses the reader no library stream
ReadsBackWritten ==
    /\ kind = "decomp"
    /\ Len(plain) = 1
    /\ file = Compress(plain[1])
    /\ ~env.open_fails

\* C22: the bytes written through Bzip2Compressor (write, then close) are what
\* reading the resulting file through Bzip2Decompressor yields, up to and
\* including the read() that ends the reading, which returns empty and does
\* not fail
C22_RoundTrip ==
    (ReadsBackWritten /\ ReadingOver)
        => (result.k /= "exc" /\ out = plain[1])

\* a write() or a read() of the bzip2 file codec that ran to its end
WriteOrRead ==
    /\ Bzip2Compressor_write \/ Bzip2Decompressor_read
    /\ ~aborted'

\* what a bzip2_error raised for the status e carries
Carries(e) == <<e, IF e = "BZ_IO_ERROR" THEN env.errno ELSE 0>>

\* C23 as stated: a write() or read() raises a bzip2_error exactly when the
\* library reports a status other than ok or stream end to it; the error
\* carries that status, and errno exactly when the status is the I/O error
C23_RaisesIffLibraryFails ==
    [][WriteOrRead =>
         /\ (result'.k = "exc") <=> (lib_bad' /= "")
         /\ result'.k = "exc" => result'.v = Carries(lib_bad')]_vars

\* C23: a write() raises a bzip2_error exactly when the library reports a
\* status other than ok or stream end; a read() raises one exactly when the
\* library reports such a status, except from the open of a fresh stream after
\* a stream end, whose failure marks the stream ended, drops the handle and
\* returns the decoded bytes; a raised error carries the library's status, and
\* errno exactly when that status is the library's I/O error code, 0 otherwise
C23_RaisesUnlessFreshOpen ==
    [][WriteOrRead =>
         /\ (result'.k = "exc") <=> (lib_bad' /= "" /\ ~m_stream_end')
         /\ result'.k = "exc" => result'.v = Carries(lib_bad')
         /\ (lib_bad' /= "" /\ m_stream_end')
               => (kind = "decomp" /\ ~m_bzfile' /\ result'.k = "ok")]_vars

\* a read() raised for a status other than the I/O error, after a write() had
\* succeeded
C23_Witness ==
    /\ kind = "decomp"
    /\ plain[1] /= <<>>
    /\ called
    /\ lib_bad = "BZ_UNEXPECTED_EOF"
    /\ result = [k |-> "exc", v |-> <<"BZ_UNEXPECTED_EOF", 0>>]

\* C24: the bzip2 kind is registered with the CompressionFactory exactly once
\* per process, however many translation units include the codec; once
\* initialization is over the table holds the three bzip2 constructors and is
\* never written again
C24_RegisteredOnce ==
    /\ [](n_registered <= 1)
    /\ [](started => (n_registered = 1 /\ m_callbacks["bzip2"] = <<Bzip2Callbacks>>))
    /\ [][started => UNCHANGED m_callbacks]_vars

\* close() calls the background task has made when its try block is left:
\* none after a failed read(), one otherwise
ClosesDue == IF ReadFailed THEN 0 ELSE 1

\* C25: the background task calls the decompressor's close() exactly once
\* when the read loop ends by end of file or by a stop request, before the
\* sentinel is pushed, and never when the loop ends by a failure of read()
C25_CloseOnceBeforeSentinel ==
    /\ [](rt_pc \in {"loop", "read", "add_data", "set_data", "close"}
            => d_closed = 0)
    /\ [](rt_pc \in {"add_exc", "set_exc", "add_eof", "set_eof", "exit"}
            => d_closed = ClosesDue)
    /\ [][d_closed' /= d_closed
            => (/\ rt_pc = "close" /\ ~ReadFailed
                /\ \A i \in 1..Len(cell) : cell[i] /= Sentinel
                /\ rtm_m_done \/ data = EmptyString)]_vars

\* the task has ended after a stop request cut the loop short of the end of
\* the file, having closed the decompressor once
C25_Witness ==
    /\ rt_pc = "exit"
    /\ rtm_m_done
    /\ data /= EmptyString
    /\ d_closed = 1

\* the slots the background task can append: one per chunk, one failure, the
\* sentinel
SlotIds == 1..(MaxChunks + 2)

SlotPending(i) == IF i <= Len(cell) THEN cell[i] = Pending ELSE FALSE
SlotFulfilled(i) == IF i <= Len(cell) THEN cell[i] /= Pending ELSE FALSE

\* C26: each add_to_queue call appends exactly one slot, unfulfilled, and
\* then stores its content in that same slot, once; the only unfulfilled slot
\* is the one of the call in progress; a consumer that has taken a slot
\* before its fulfilment gets exactly the content stored in it; every slot is
\* fulfilled in the end and no fulfilled slot changes
C26_SlotFulfilledOnce ==
    /\ [][cell' /= cell =>
            \/ /\ promise = 0
               /\ cell' = Append(cell, Pending)
               /\ m_queue' = Append(m_queue, Len(cell'))
               /\ promise' = Len(cell')
            \/ /\ promise /= 0
               /\ cell[promise] = Pending
               /\ promise_data /= Pending
               /\ cell' = [cell EXCEPT ![promise] = promise_data]
               /\ promise' = 0]_vars
    /\ [](\A i \in 1..Len(cell) : cell[i] = Pending => promise = i)
    /\ [][\A i \in 1..Len(cell) : cell[i] /= Pending => cell'[i] = cell[i]]_vars
    /\ [][popped' /= popped /\ data_future /= 0 =>
            /\ cell[data_future] /= Pending
            /\ popped' = Append(popped, cell[data_future])]_vars
    /\ \A i \in SlotIds : SlotPending(i) ~> SlotFulfilled(i)

\* the consumer has taken the slot of an add_to_queue call in the window
\* between its push and its set_value
C26_Witness ==
    /\ promise /= 0
    /\ data_future = promise
    /\ cell[promise] = Pending

\* what BZ2_bzRead reports to a read() entered in this state
LibraryRead == {BZ2_bzRead(bz_st, bz_buf, f_pos, f_eof, <<>>)}

\* the decode stream has been opened anew on the unused bytes u
Reopened(u) ==
    /\ m_bzfile' /\ bz_live' = bz_live
    /\ bz_st' = "magic" /\ bz_buf' = u
    /\ ~m_stream_end'

\* C27 as stated: on a read() to which the library reports stream end, the
\* decode stream is reopened on the unused bytes when the file is not at its
\* end and there are some; a fresh stream is opened when there are none, and
\* the stream is marked ended when that open fails; the stream is marked ended
\* when the file is at its end; the decoded bytes are returned in every case
C27_StreamEndCases ==
    [][(Bzip2Decompressor_read /\ m_bzfile /\ ~m_stream_end) =>
         \A r \in LibraryRead : r.bzerror = "BZ_STREAM_END" =>
            /\ (~r.eof /\ r.buf /= <<>>) => Reopened(r.buf)
            /\ (~r.eof /\ r.buf = <<>> /\ ~env.open_fails)
                  => (Reopened(<<>>) /\ f_pos' = r.pos)
            /\ (~r.eof /\ r.buf = <<>> /\ env.open_fails)
                  => (m_stream_end' /\ result'.k /= "exc")
            /\ r.eof => m_stream_end'
            /\ result' = Ok(r.out)]_vars

\* C27: on a read() to which the library reports stream end: if the file is
\* not at its end and the library holds unused bytes, the decode stream is
\* reopened on exactly those bytes and the stream is not marked ended, unless
\* that open fails, in which case read() raises, the handle is dropped and the
\* decoded bytes are not returned; if the file is not at its end and there are
\* no unused bytes, a fresh stream is opened at the file position, and when
\* that open fails the stream is marked ended without raising; if the file is
\* at its end the stream is marked ended. Unless read() raises, it returns the
\* bytes it decoded
C27_StreamEndCasesOrRaise ==
    [][(Bzip2Decompressor_read /\ m_bzfile /\ ~m_stream_end) =>
         \A r \in LibraryRead : r.bzerror = "BZ_STREAM_END" =>
            /\ (~r.eof /\ r.buf /= <<>> /\ ~env.open_fails) => Reopened(r.buf)
            /\ (~r.eof /\ r.buf /= <<>> /\ env.open_fails)
                  => (result'.k = "exc" /\ ~m_bzfile' /\ ~m_stream_end')
            /\ (~r.eof /\ r.buf = <<>> /\ ~env.open_fails)
                  => (Reopened(<<>>) /\ f_pos' = r.pos)
            /\ (~r.eof /\ r.buf = <<>> /\ env.open_fails)
                  => (m_stream_end' /\ ~m_bzfile' /\ result'.k /= "exc")
            /\ r.eof => (m_stream_end' /\ m_bzfile')
            /\ result'.k /= "exc" => result' = Ok(r.out)]_vars

\* a read() has returned bytes and left the decode stream reopened on unused
\* input
C27_Witness ==
    /\ kind = "decomp"
    /\ called
    /\ result.k = "ok" /\ result.v /= <<>>
    /\ bz_st = "magic" /\ bz_buf /= <<>>
    /\ ~m_stream_end

\* what BZ2_bzDecompress reports to a Bzip2BufferDecompressor::read() entered
\* in this state
LibraryDecompress == {BZ2_bzDecompress(bz_st, bz_buf, buffer_size, <<>>)}

\* C28: Bzip2BufferDecompressor::read() returns the decoded chunk, of at most
\* the output buffer's size, while the library reports ok; on stream end it
\* clears the buffer reference and returns the final bytes; on any other
\* status it clears the reference and raises a bzip2_error with that status;
\* once the reference is cleared it stays cleared and every read() returns
\* empty without calling the library and without raising
C28_BufferRead ==
    /\ [][(Bzip2BufferDecompressor_read /\ m_buffer) =>
            \A d \in LibraryDecompress :
               /\ called'
               /\ Len(d.out) <= buffer_size
               /\ d.ret = "BZ_OK" => (m_buffer' /\ result' = Ok(d.out))
               /\ d.ret = "BZ_STREAM_END" => (~m_buffer' /\ result' = Ok(d.out))
               /\ d.ret \notin {"BZ_OK", "BZ_STREAM_END"}
                     => (/\ ~m_buffer'
                         /\ result'.k = "exc"
                         /\ result'.v[1] = d.ret)]_vars
    /\ [][(Bzip2BufferDecompressor_read /\ ~m_buffer) =>
            /\ ~called'
            /\ result' = Ok(<<>>)
            /\ UNCHANGED <<bz_st, bz_buf, bz_live>>]_vars
    /\ [][(kind = "buf" /\ ~m_buffer) => ~m_buffer']_vars

\* after a failure of the library a later read() has returned empty without
\* calling it
C28_Witness ==
    /\ kind = "buf"
    /\ ~m_buffer
    /\ ~called
    /\ result = Ok(<<>>)
    /\ bz_st /= "end"

\* C29: Bzip2Compressor::file_size() returns 0 until a close() has succeeded;
\* the close() that succeeds makes it hi * 2^32 + lo, for the high and low
\* output byte counts the library reports at finalize; a close() that raises
\* leaves it 0
C29_FileSize ==
    /\ []((kind = "comp" /\ closes = 0 /\ ~destroyed) => m_file_size = 0)
    /\ [][Bzip2Compressor_close =>
            m_file_size' = IF m_bzfile /\ result'.k = "ok"
                           THEN env.hi32 * Word + env.lo32
                           ELSE m_file_size]_vars

\* C30 as stated: with the eviction toggle set every read() is followed by an
\* advisory keyed by the file offset it has reached; with the toggle unset
\* neither read() nor close() issues one
C30_EvictionAfterRead ==
    /\ [][(Bzip2Decompressor_read /\ env.evict /\ ~aborted')
            => advice' = <<f_pos'>>]_vars
    /\ [][((Bzip2Decompressor_read \/ Bzip2Decompressor_close) /\ ~env.evict)
            => advice' = <<>>]_vars

\* C30: with the eviction toggle set, a read() entered with the file offset
\* above 0 first issues one advisory keyed by that offset, and a read()
\* entered at offset 0 issues none; nothing is advised after the decoding; a
\* close() on an open handle issues one advisory for the whole file; with the
\* toggle unset neither read() nor close() issues one
C30_EvictionAtEntry ==
    /\ [][(Bzip2Decompressor_read /\ env.evict)
            => advice' = IF f_pos > 0 THEN <<f_pos>> ELSE <<>>]_vars
    /\ [][(Bzip2Decompressor_close /\ env.evict)
            => advice' = IF m_bzfile THEN <<WholeFile>> ELSE <<>>]_vars
    /\ [][((Bzip2Decompressor_read \/ Bzip2Decompressor_close) /\ ~env.evict)
            => advice' = <<>>]_vars

\* a read() past the first has issued an advisory for the offset it was
\* entered with
C30_Witness ==
    /\ kind = "decomp"
    /\ env.evict
    /\ Len(advice) = 1
    /\ advice[1] > 0
    /\ out /= <<>>

\* C31: on every Bzip2Decompressor::read() call made before close() the
\* library read handle is non-null, so the assertion at the head of read()
\* holds, also once the stream has been marked ended
C31_HandleSetOnRead ==
    [][Bzip2Decompressor_read => (m_bzfile /\ ~aborted')]_vars

\* C32: descriptor 1 is never closed: not by a constructor that fails, not
\* by close(), not by the destructors, whatever fails on the way
C32_StdoutNeverClosed == fd = 1 => fd_open

====
